---- MODULE Spec2Model ----
(***************************************************************************)
(* Model of the audio pipeline of nfai-web-scraper: the segment planner    *)
(* and parallel fetcher (scrapers/twitch.py), the segment combiner and the *)
(* transcription job (utils/transcriber.py), the upload retry of the       *)
(* transcription client (providers/gemini.py) and the output formatters    *)
(* (utils/formatters.py), and the token bucket of the post scraper         *)
(* (scrapers/x_scraper.py).                                                *)
(*                                                                         *)
(* Times are whole seconds.  Strings are sequences of character codes      *)
(* (file names) or of tokens (model replies).                              *)
(***************************************************************************)
EXTENDS Integers, Sequences, FiniteSets, TLC

VARIABLES
    \* ---- TwitchScraper (scrapers/twitch.py, scrapers/base.py)
    segment_duration,   \* self.segment_duration, seconds (minutes * 60)
    max_concurrent,     \* self.max_concurrent
    duration,           \* info.get('duration'); 0 stands for missing/zero
    segments,           \* the planned windows
    dl_pc,              \* position of download(): info, submit, collect, shutdown, returned, raised
    status,             \* per window: new, queued, running, ok, failed
    completed,          \* window indices in completion order (as_completed)
    taken,              \* how many completed futures the collecting loop has consumed
    segment_files,      \* the list segment_files of download()
    dl_result,          \* the list download() returned
    seg_dir,            \* names of the files in the segments directory
    attempts,           \* per window: number of _download_segment invocations
    \* ---- AudioTranscriber (utils/transcriber.py), SpeakerClipper
    seg_dir_exists,     \* the segments directory exists
    segment_paths,      \* the argument segment_paths of transcribe()
    output_format,      \* the argument output_format of AudioTranscriber
    tr_pc,              \* position of transcribe()
    tr_trace,           \* the stages transcribe() has completed, in order
    tr_result,          \* the path transcribe() returned
    out_files,          \* names of the files in the video directory
    ffmpeg_out,         \* how the concatenation tool ended: none, ok, nonzero, empty
    unlinked,           \* how many of segment_paths the cleanup loop has unlinked
    reply_segments,     \* the parsed transcription segments
    clip_todo,          \* best_segments still to extract, in dict order
    speaker_clips,      \* the dict speaker_clips, as a sequence of <<speaker, path>>
    clip_runs,          \* number of clip extractions run
    \* ---- GeminiProvider (providers/gemini.py)
    max_retries,        \* self.max_retries
    pv_variant,         \* "file": transcribe/_upload_file, "bytes": transcribe_bytes/_upload_bytes
    pv_pc,              \* position of the provider call: idle, upload, chat, returned
    retry_count,        \* the argument retry_count of the running upload attempt
    file_handle,        \* an upload attempt returned a handle
    uploads,            \* number of genai.upload_file calls made
    sleeps,             \* the durations passed to time.sleep, in order
    pv_result,          \* what transcribe/transcribe_bytes returned
    \* ---- BaseFormatter, TextFormatter, JsonFormatter (utils/formatters.py)
    fmt_kind,           \* the class of the formatter: TextFormatter or JsonFormatter
    time_unit,          \* self.time_unit: ms, s or min
    fmt_text,           \* the argument text of format_output
    fmt_pc,             \* ready, done, again
    fmt_out,            \* what format_output did: raised, or the entries it emitted
    fmt_str,            \* the string format_output returned
    fmt_again,          \* what format_output did on its own output
    \* ---- BaseFormatter._convert_time followed by _parse_time
    conv_ms,            \* the argument ms of _convert_time
    conv_pc,            \* idle, ready, converted, parsed
    conv_x,             \* the float _convert_time returned
    conv_back,          \* the int _parse_time returned for that float
    \* ---- RateLimiter (scrapers/x_scraper.py)
    lim_rate,           \* self.rate, tokens per second
    lim_burst,          \* self.burst
    tokens,             \* self.tokens, in units of 1/TicksPerSecond of a token
    last_update,        \* self.last_update, in ticks
    clock,              \* time.monotonic(), in ticks
    lock_owner,         \* the task holding self.lock, 0 for none
    lock_waiters,       \* the tasks queued on self.lock, first come first
    acq_pc,             \* per task: idle, waiting (for the lock), sleeping (in the loop)
    wake_at,            \* per task: the tick its asyncio.sleep ends
    acquire_calls,      \* number of acquire() calls made
    returned,           \* number of acquire() calls that returned
    pre_debit,          \* self.tokens right before the latest "self.tokens -= 1"
    due,                \* min(burst, tokens + elapsed * rate) at the loop test before it
    credited,           \* total added to self.tokens by the refills
    debited,            \* total taken from self.tokens by the debits
    \* ---- XScraper.get_user_tweets (scrapers/x_scraper.py)
    x_since,            \* since_timestamp as a day number, 0 for None
    x_max_tweets,       \* max_tweets, 0 for None
    x_max_retries,      \* max_retries
    x_pc,               \* position of get_user_tweets
    x_page,             \* user_tweets: the page in hand
    x_tweets,           \* the list tweets
    x_seen,             \* seen_tweet_ids
    x_retry,            \* retry_count
    x_in_flight,        \* number of remote requests awaiting their response
    x_fetches,          \* number of page fetches issued
    x_acquired,         \* number of rate_limiter.acquire() calls that returned
    x_waits,            \* number of rate-limit sleeps
    x_wait,             \* wait_time of the latest rate-limit sleep
    x_stop,             \* why the page loop ended
    x_error,            \* the exception get_user_tweets raised
    x_archive,          \* the archive file, NoArchive while there is none
    x_skipped,          \* a duplicate tweet has been skipped
    x_reply             \* the latest response of the remote service

fetchCore == <<segment_duration, max_concurrent, duration, segments, dl_pc, status,
               completed, taken, segment_files, dl_result, attempts>>

fetchVars == <<fetchCore, seg_dir>>

combVars == <<seg_dir_exists, ffmpeg_out, unlinked>>

clipVars == <<reply_segments, clip_todo, speaker_clips, clip_runs>>

provConf == <<max_retries, pv_variant>>

provVars == <<provConf, pv_pc, retry_count, file_handle, uploads, sleeps, pv_result>>

trConf == <<segment_paths, output_format>>

jobVars == <<trConf, tr_pc, tr_trace, tr_result, out_files, combVars, clipVars, provVars>>

fmtConf == <<fmt_kind, time_unit, fmt_text>>

fmtVars == <<fmtConf, fmt_pc, fmt_out, fmt_str, fmt_again>>

convVars == <<conv_ms, conv_pc, conv_x, conv_back>>

limConf == <<lim_rate, lim_burst>>

limVars == <<limConf, tokens, last_update, clock, lock_owner, lock_waiters, acq_pc,
             wake_at, acquire_calls, returned, pre_debit, due, credited, debited>>

xConf == <<x_since, x_max_tweets, x_max_retries>>

xVars == <<xConf, x_pc, x_page, x_tweets, x_seen, x_retry, x_in_flight, x_fetches,
           x_acquired, x_waits, x_wait, x_stop, x_error, x_archive, x_skipped, x_reply>>

vars == <<fetchVars, jobVars, fmtVars, convVars, limVars, xVars>>

\* What the actions of one component leave alone.
notFetch == <<jobVars, fmtVars, convVars, limVars, xVars>>

notJob == <<fetchCore, fmtVars, convVars, limVars, xVars>>

notFmt == <<fetchVars, jobVars, convVars, limVars, xVars>>

notConv == <<fetchVars, jobVars, fmt_kind, fmt_text, fmt_pc, fmt_out, fmt_str, fmt_again,
             limVars, xVars>>

notLim == <<fetchVars, jobVars, fmtVars, convVars, xVars>>

notX == <<fetchVars, jobVars, fmtVars, convVars, limVars>>

(***************************************************************************)
(* Bounds of the model.                                                    *)
(***************************************************************************)
MaxSegMinutes == 5      \* --segment_duration ranges over 1..MaxSegMinutes
MaxDuration == 720      \* planner: durations 1..MaxDuration seconds
MaxWindows == 4         \* fetcher: sources of at most MaxWindows windows
MaxConcurrent == 2      \* --max_concurrent ranges over 1..MaxConcurrent
MaxRetries == 3         \* max_retries ranges over 0..MaxRetries
MaxTextLen == 6         \* formatter: replies of at most MaxTextLen tokens
MaxLines == 2           \* formatter: well-formed replies of at most MaxLines lines
MaxMillis == 1500       \* conversion: millisecond counts 0..MaxMillis
MaxSegments == 3        \* clipper: segment lists of at most MaxSegments segments
NumTasks == 2           \* limiter: tasks 1..NumTasks call acquire()
MaxCalls == 4           \* limiter: at most MaxCalls calls of acquire()
MaxClock == 9           \* limiter: the clock runs from 0 to MaxClock ticks
MaxBurst == 2           \* limiter: burst ranges over 1..MaxBurst
MaxRate == 2            \* limiter: rate ranges over 1..MaxRate tokens per second
TicksPerSecond == 4     \* limiter: resolution of the clock
MaxIds == 2             \* scraper: tweet ids 1..MaxIds
MaxDay == 2             \* scraper: creation days and date floors 1..MaxDay
MaxPageLen == 2         \* scraper: pages of at most MaxPageLen tweets
MaxFetches == 4         \* scraper: at most MaxFetches page fetches in a job
MaxTweets == 2          \* scraper: max_tweets ranges over None and 1..MaxTweets
XMaxRetries == 3        \* scraper: max_retries ranges over 0..XMaxRetries

(***************************************************************************)
(* Program constants.                                                      *)
(***************************************************************************)
SecondsPerMinute == 60
PadWidth == 3
MantissaBits == 53      \* significand of a Python float (IEEE 754 binary64)

(***************************************************************************)
(* Helpers on sequences.                                                   *)
(***************************************************************************)
Min(a, b) == IF a <= b THEN a ELSE b

Range(s) == {s[i] : i \in 1..Len(s)}

\* Python's comparison of two strings (sequences of character codes).
RECURSIVE StrLess(_, _)
StrLess(a, b) ==
    IF b = <<>> THEN FALSE
    ELSE IF a = <<>> THEN TRUE
    ELSE IF Head(a) # Head(b) THEN Head(a) < Head(b)
    ELSE StrLess(Tail(a), Tail(b))

\* Decimal digits of n as character codes ('0' = 48).
RECURSIVE Digits(_)
Digits(n) == IF n < 10 THEN <<48 + n>> ELSE Digits(n \div 10) \o <<48 + (n % 10)>>

RECURSIVE ZeroFill(_, _)
ZeroFill(s, w) == IF Len(s) >= w THEN s ELSE ZeroFill(<<48>> \o s, w)

\* f'{n:03d}'
TitleOf(n) == ZeroFill(Digits(n), PadWidth)

\* 'full'
FullTitle == <<102, 117, 108, 108>>

\* output_dir / f'segment_{title}.wav': the name without the common prefix
\* "segment_"; '.' = 46 starts the suffix.
SegmentPath(title) == title \o <<46, 119, 97, 118>>

(***************************************************************************)
(* TwitchScraper._get_segments                                             *)
(***************************************************************************)
RECURSIVE PlanFrom(_, _, _)
PlanFrom(i, last, d) ==
    IF i > last THEN <<>>
    ELSE LET start_time == i * segment_duration
             end_time == Min((i + 1) * segment_duration, d)
         IN  IF end_time <= start_time
             THEN PlanFrom(i + 1, last, d)
             ELSE <<[start_time |-> start_time, end_time |-> end_time,
                     title |-> TitleOf(i + 1)]>> \o PlanFrom(i + 1, last, d)

\* Variant: range(int(duration / self.segment_duration)), without the + 1.
get_segments_short(d) == PlanFrom(0, (d \div segment_duration) - 1, d)

get_segments(d) == PlanFrom(0, d \div segment_duration, d)

\* Variant: the whole-source window carries the first numbered label.
FullWindow_numbered == [start_time |-> 0, end_time |-> -1, title |-> TitleOf(1)]

\* The single whole-source window planned when the duration is unavailable;
\* end_time -1 stands for None.
FullWindow == [start_time |-> 0, end_time |-> -1, title |-> FullTitle]

(***************************************************************************)
(* TwitchScraper.download                                                  *)
(***************************************************************************)
Windows == 1..Len(segments)

Running == {i \in Windows : status[i] = "running"}

Queued == {i \in Windows : status[i] = "queued"}

\* _get_video_info raises: download re-raises.
InfoFails ==
    /\ dl_pc = "info"
    /\ dl_pc' = "raised"
    /\ UNCHANGED <<segment_duration, max_concurrent, duration, segments, status,
                   completed, taken, segment_files, dl_result, seg_dir, attempts, notFetch>>

\* _get_video_info returns; the windows are planned.
PlanSegments ==
    /\ dl_pc = "info"
    /\ segments' = IF duration = 0 THEN <<FullWindow>> ELSE get_segments(duration)
    /\ status' = [i \in 1..Len(segments') |-> "new"]
    /\ attempts' = [i \in 1..Len(segments') |-> 0]
    /\ dl_pc' = "submit"
    /\ UNCHANGED <<segment_duration, max_concurrent, duration, completed, taken,
                   segment_files, dl_result, seg_dir, notFetch>>

\* executor.submit for the next window, in plan order.
Submit ==
    /\ dl_pc = "submit"
    /\ \E i \in Windows :
        /\ status[i] = "new"
        /\ \A j \in Windows : j < i => status[j] # "new"
        /\ status' = [status EXCEPT ![i] = "queued"]
        /\ dl_pc' = IF i = Len(segments) THEN "collect" ELSE "submit"
    /\ UNCHANGED <<segment_duration, max_concurrent, duration, segments, completed,
                   taken, segment_files, dl_result, seg_dir, attempts, notFetch>>

\* Variant: a pool that starts a thread for every work item.
WorkerFree_unbounded == TRUE

\* The pool has at most max_workers threads; a thread takes the oldest
\* queued work item.
WorkerFree == Cardinality(Running) < max_concurrent

WorkerStart ==
    /\ WorkerFree
    /\ \E i \in Queued :
        /\ \A j \in Queued : i <= j
        /\ status' = [status EXCEPT ![i] = "running"]
        /\ attempts' = [attempts EXCEPT ![i] = @ + 1]
    /\ UNCHANGED <<segment_duration, max_concurrent, duration, segments, dl_pc,
                   completed, taken, segment_files, dl_result, seg_dir, notFetch>>

\* _download_segment returns the path of the written file.
DownloadOk ==
    /\ \E i \in Running :
        /\ status' = [status EXCEPT ![i] = "ok"]
        /\ seg_dir' = seg_dir \cup {SegmentPath(segments[i].title)}
        /\ completed' = Append(completed, i)
    /\ UNCHANGED <<segment_duration, max_concurrent, duration, segments, dl_pc,
                   taken, segment_files, dl_result, attempts, notFetch>>

\* _download_segment logs and re-raises.
DownloadFails ==
    /\ \E i \in Running :
        /\ status' = [status EXCEPT ![i] = "failed"]
        /\ completed' = Append(completed, i)
    /\ UNCHANGED <<segment_duration, max_concurrent, duration, segments, dl_pc,
                   taken, segment_files, dl_result, seg_dir, attempts, notFetch>>

\* Variant: return segment_files, in completion order.
SortedFiles_unsorted(files) == files

\* sorted(segment_files)
SortedFiles(files) == SortSeq(files, StrLess)

\* Variant: a failed future is logged and the loop goes on.
Collect_swallow ==
    /\ dl_pc = "collect"
    /\ taken < Len(completed)
    /\ LET i == completed[taken + 1] IN
        /\ segment_files' = IF status[i] = "ok"
                            THEN Append(segment_files, SegmentPath(segments[i].title))
                            ELSE segment_files
        /\ taken' = taken + 1
    /\ UNCHANGED <<segment_duration, max_concurrent, duration, segments, dl_pc, status,
                   completed, dl_result, seg_dir, attempts, notFetch>>

\* One iteration of the loop over as_completed: future.result() either
\* gives the path, which is appended, or raises, which leaves the loop.
Collect ==
    /\ dl_pc = "collect"
    /\ taken < Len(completed)
    /\ LET i == completed[taken + 1] IN
        IF status[i] = "ok"
        THEN /\ segment_files' = Append(segment_files, SegmentPath(segments[i].title))
             /\ taken' = taken + 1
             /\ dl_pc' = "collect"
        ELSE /\ dl_pc' = "shutdown"
             /\ taken' = taken + 1
             /\ UNCHANGED segment_files
    /\ UNCHANGED <<segment_duration, max_concurrent, duration, segments, status,
                   completed, dl_result, seg_dir, attempts, notFetch>>

\* The loop is exhausted: the with block ends and the sorted list is returned.
Return ==
    /\ dl_pc = "collect"
    /\ taken = Len(segments)
    /\ dl_result' = SortedFiles(segment_files)
    /\ dl_pc' = "returned"
    /\ UNCHANGED <<segment_duration, max_concurrent, duration, segments, status,
                   completed, taken, segment_files, seg_dir, attempts, notFetch>>

\* Variant: the pool is left without waiting (shutdown(wait=False)).
Shutdown_no_wait ==
    /\ dl_pc = "shutdown"
    /\ dl_pc' = "raised"
    /\ UNCHANGED <<segment_duration, max_concurrent, duration, segments, status,
                   completed, taken, segment_files, dl_result, seg_dir, attempts, notFetch>>

\* Leaving the with block on an exception: executor.shutdown(wait=True)
\* returns once every submitted work item has run; then the error is
\* re-raised to the caller.
Shutdown ==
    /\ dl_pc = "shutdown"
    /\ Queued = {}
    /\ Running = {}
    /\ dl_pc' = "raised"
    /\ UNCHANGED <<segment_duration, max_concurrent, duration, segments, status,
                   completed, taken, segment_files, dl_result, seg_dir, attempts, notFetch>>

(***************************************************************************)
(* Strings of the model reply: sequences of tokens.  "1" is a digit, "inf" *)
(* a numeral float() reads as infinity, "a" "b" "A" letters.               *)
(***************************************************************************)
IsSpace(c) == c \in {" ", "\n"}

RECURSIVE LStrip(_)
LStrip(s) == IF s # <<>> /\ IsSpace(Head(s)) THEN LStrip(Tail(s)) ELSE s

RECURSIVE RStrip(_)
RStrip(s) ==
    IF s # <<>> /\ IsSpace(s[Len(s)]) THEN RStrip(SubSeq(s, 1, Len(s) - 1)) ELSE s

\* str.strip()
Strip(s) == RStrip(LStrip(s))

\* The positions of the line breaks of text.
LineBreaks(text) == {i \in 1..Len(text) : text[i] = "\n"}

\* The position of the k-th line break; 0 before the first line, one past
\* the end after the last break.
BreakAt(text, k) ==
    IF k = 0 THEN 0
    ELSE IF k > Cardinality(LineBreaks(text)) THEN Len(text) + 1
    ELSE CHOOSE i \in LineBreaks(text) :
             Cardinality({j \in LineBreaks(text) : j < i}) = k - 1

\* str.splitlines(): the pieces between line breaks; no empty piece after
\* the last break.
SplitLines(text) ==
    LET n == Cardinality(LineBreaks(text))
        count == IF BreakAt(text, n) = Len(text) THEN n ELSE n + 1
    IN  [k \in 1..count |-> SubSeq(text, BreakAt(text, k - 1) + 1, BreakAt(text, k) - 1)]

\* The position of the first sep in s, 0 if there is none.
FirstIndex(s, sep) ==
    IF \E i \in 1..Len(s) : s[i] = sep
    THEN CHOOSE i \in 1..Len(s) : s[i] = sep /\ \A j \in 1..(i - 1) : s[j] # sep
    ELSE 0

\* str.split(sep, maxsplit)
RECURSIVE Split(_, _, _)
Split(s, sep, maxsplit) ==
    LET k == FirstIndex(s, sep) IN
    IF maxsplit = 0 \/ k = 0 THEN <<s>>
    ELSE <<SubSeq(s, 1, k - 1)>> \o Split(SubSeq(s, k + 1, Len(s)), sep, maxsplit - 1)

\* [x.strip() for x in line.split(sep, 2)]
Fields(line, sep) ==
    LET parts == Split(line, sep, 2) IN [i \in 1..Len(parts) |-> Strip(parts[i])]

(***************************************************************************)
(* float() on a string                                                     *)
(***************************************************************************)
DigitChars == <<"0", "1", "2", "3", "4", "5", "6", "7", "8", "9">>

IsDigit(c) == \E d \in 1..10 : DigitChars[d] = c

DigitVal(c) == (CHOOSE d \in 1..10 : DigitChars[d] = c) - 1

IsDigits(s) == \A i \in 1..Len(s) : IsDigit(s[i])

RECURSIVE DigitsValue(_)
DigitsValue(s) ==
    IF s = <<>> THEN 0
    ELSE 10 * DigitsValue(SubSeq(s, 1, Len(s) - 1)) + DigitVal(s[Len(s)])

\* The digits before and after the decimal point of a numeral.
WholePart(value) ==
    LET k == FirstIndex(value, ".") IN
    IF k = 0 THEN value ELSE SubSeq(value, 1, k - 1)

FractionPart(value) ==
    LET k == FirstIndex(value, ".") IN
    IF k = 0 THEN <<>> ELSE SubSeq(value, k + 1, Len(value))

\* A decimal numeral: digits, digits '.' digits, with a digit on at least
\* one side of the point.
Numeral(value) ==
    /\ IsDigits(WholePart(value))
    /\ IsDigits(FractionPart(value))
    /\ Len(WholePart(value)) + Len(FractionPart(value)) > 0

\* float(value) on a stripped field: a numeral is that number, "inf" is
\* infinity, anything else (the empty string too) is a ValueError.  The
\* numerals of the model are whole; one with a non-zero fractional digit is
\* told apart and has no value here.
FloatOf(value) ==
    IF Numeral(value)
    THEN IF \A i \in 1..Len(FractionPart(value)) : FractionPart(value)[i] = "0"
         THEN [kind |-> "number", val |-> DigitsValue(WholePart(value))]
         ELSE [kind |-> "fraction"]
    ELSE IF Strip(value) = <<"inf">> THEN [kind |-> "inf"]
    ELSE [kind |-> "ValueError"]

(***************************************************************************)
(* get_formatter and the formatter's parse step                            *)
(***************************************************************************)
\* format_type.lower()
LowerFormat(format_type) ==
    CASE format_type = "JSON" -> "json"
      [] format_type = "TXT" -> "txt"
      [] OTHER -> format_type

\* formatters.get(format_type.lower(), TextFormatter(time_unit))
get_formatter(format_type) ==
    IF LowerFormat(format_type) = "json" THEN "JsonFormatter" ELSE "TextFormatter"

\* The delimiter a formatter splits on.
Delimiter(formatter) == IF formatter = "JsonFormatter" THEN "|" ELSE ";"

\* parse_transcription: the segments of the lines that split into exactly
\* three fields; every other line is dropped.
RECURSIVE ParseLines(_, _)
ParseLines(lines, sep) ==
    IF lines = <<>> THEN <<>>
    ELSE LET line == Head(lines)
             f == Fields(line, sep)
         IN  IF Strip(line) = <<>> \/ Len(f) # 3
             THEN ParseLines(Tail(lines), sep)
             ELSE <<[timestamp |-> f[1], speaker |-> f[2], text |-> f[3]]>>
                  \o ParseLines(Tail(lines), sep)

parse_transcription(text, formatter) == ParseLines(SplitLines(text), Delimiter(formatter))

(***************************************************************************)
(* SpeakerClipper                                                          *)
(***************************************************************************)
\* _parse_duration: "HH:MM:SS" in seconds, the sum of the three fields
\* read by float(); a string that does not split into three fields on ':',
\* or a field float() rejects, gives 0 (the bare except).
parse_duration(timestamp) ==
    LET parts == Split(timestamp, ":", -1)
        f == [i \in 1..Len(parts) |-> FloatOf(Strip(parts[i]))]
    IN  IF Len(parts) # 3 THEN 0
        ELSE CASE \E i \in 1..3 : f[i].kind = "ValueError" -> 0
               [] \A i \in 1..3 : f[i].kind = "number" ->
                      f[1].val * 3600 + f[2].val * 60 + f[3].val

\* self._parse_duration(segment.get('duration', '0'))
DurationOf(segment) ==
    parse_duration(IF "duration" \in DOMAIN segment THEN segment.duration ELSE <<"0">>)

\* Variant: "duration >= speaker_segments[speaker]['duration']".
Longer_or_equal(d, e) == d >= e

\* "duration > speaker_segments[speaker]['duration']"
Longer(d, e) == d > e

\* _find_best_segments: the dict speaker -> timestamp as a sequence of
\* <<speaker, timestamp, duration>> in insertion order.
RECURSIVE BestFrom(_, _)
BestFrom(segs, best) ==
    IF segs = <<>> THEN best
    ELSE LET seg == Head(segs)
             d == DurationOf(seg)
             known == {k \in 1..Len(best) : best[k][1] = seg.speaker}
         IN  IF known = {}
             THEN BestFrom(Tail(segs), Append(best, <<seg.speaker, seg.timestamp, d>>))
             ELSE LET k == CHOOSE k \in known : TRUE IN
                  IF Longer(d, best[k][3])
                  THEN BestFrom(Tail(segs),
                                [best EXCEPT ![k] = <<seg.speaker, seg.timestamp, d>>])
                  ELSE BestFrom(Tail(segs), best)

find_best_segments(segs) ==
    LET best == BestFrom(segs, <<>>) IN [k \in 1..Len(best) |-> <<best[k][1], best[k][2]>>]

\* speaker.lower().replace(' ', '_')
NormaliseToken(c) ==
    CASE c = "A" -> "a"
      [] c = "B" -> "b"
      [] c = " " -> "_"
      [] OTHER -> c

ClipName(speaker) == [i \in 1..Len(speaker) |-> NormaliseToken(speaker[i])]

\* clips_dir / f"{...}.wav"
ClipPath(speaker) == <<"speaker_clips", ClipName(speaker)>>

(***************************************************************************)
(* Files of the video directory                                            *)
(***************************************************************************)
\* output_dir / f"{video_id}_processed.wav"
ProcessedAudio == <<"processed", "wav">>

\* output_dir / f"{video_id}.json" and f"{video_id}.txt"
TranscriptPath(ext) == <<"transcript", ext>>

Transcripts == {TranscriptPath("json"), TranscriptPath("txt")}

\* A file of the segments directory that is no segment of this job.
OtherFile == <<111>>

(***************************************************************************)
(* Replies of the remote model used by the transcription job.              *)
(***************************************************************************)
JobReplies ==
    { <<>>,
      <<"a">>,
      <<"1", ";", "a", ";", "1">>,
      <<"1", "|", "a", "|", "1">>,
      <<"1", ";", "a", ";", "1", "\n", "1", ";", "b", ";", "1">>,
      <<"1", "|", "A", " ", "b", "|", "1", "\n", "1", "|", "A", " ", "b", "|", "a">> }

NoResult == [ok |-> FALSE]

TextResult(text) == [ok |-> TRUE, text |-> text]

(***************************************************************************)
(* AudioTranscriber._combine_audio_segments                                *)
(***************************************************************************)
\* subprocess.run(check=True) raises CalledProcessError: logged, re-raised.
FfmpegFails ==
    /\ tr_pc = "combine"
    /\ ffmpeg_out' = "nonzero"
    /\ tr_pc' = "raised"
    /\ UNCHANGED <<trConf, tr_trace, tr_result, out_files, seg_dir_exists, unlinked,
                   clipVars, provVars, seg_dir, notJob>>

\* Variant: no check of process.stdout, the cleanup runs on an empty result.
FfmpegEmpty_unchecked ==
    /\ tr_pc = "combine"
    /\ ffmpeg_out' = "empty"
    /\ tr_pc' = "cleanup"
    /\ UNCHANGED <<trConf, tr_trace, tr_result, out_files, seg_dir_exists, unlinked,
                   clipVars, provVars, seg_dir, notJob>>

\* The tool exits with status zero and an empty stdout: ValueError.
FfmpegEmpty ==
    /\ tr_pc = "combine"
    /\ ffmpeg_out' = "empty"
    /\ tr_pc' = "raised"
    /\ UNCHANGED <<trConf, tr_trace, tr_result, out_files, seg_dir_exists, unlinked,
                   clipVars, provVars, seg_dir, notJob>>

\* The tool exits with status zero and output: the cleanup starts.
FfmpegOk ==
    /\ tr_pc = "combine"
    /\ ffmpeg_out' = "ok"
    /\ tr_pc' = "cleanup"
    /\ UNCHANGED <<trConf, tr_trace, tr_result, out_files, seg_dir_exists, unlinked,
                   clipVars, provVars, seg_dir, notJob>>

\* Variant: the segment files are kept.
Unlink_keep ==
    /\ tr_pc = "cleanup"
    /\ unlinked < Len(segment_paths)
    /\ unlinked' = unlinked + 1
    /\ UNCHANGED <<trConf, tr_pc, tr_trace, tr_result, out_files, seg_dir_exists,
                   ffmpeg_out, clipVars, provVars, seg_dir, notJob>>

\* One iteration of "for path in segment_paths: path.unlink()"; unlinking a
\* missing file raises.
Unlink ==
    /\ tr_pc = "cleanup"
    /\ unlinked < Len(segment_paths)
    /\ LET path == segment_paths[unlinked + 1] IN
        IF path \in seg_dir
        THEN /\ seg_dir' = seg_dir \ {path}
             /\ unlinked' = unlinked + 1
             /\ tr_pc' = "cleanup"
        ELSE /\ tr_pc' = "raised"
             /\ UNCHANGED <<seg_dir, unlinked>>
    /\ UNCHANGED <<trConf, tr_trace, tr_result, out_files, seg_dir_exists, ffmpeg_out,
                   clipVars, provVars, notJob>>

\* The loop is over: the directory is removed when it is empty, and the
\* combined audio is returned to transcribe().
RemoveDir ==
    /\ tr_pc = "cleanup"
    /\ unlinked = Len(segment_paths)
    /\ seg_dir_exists' = (seg_dir # {})
    /\ tr_trace' = Append(tr_trace, "combine")
    /\ tr_pc' = "save_audio"
    /\ UNCHANGED <<trConf, tr_result, out_files, ffmpeg_out, unlinked,
                   clipVars, provVars, seg_dir, notJob>>

(***************************************************************************)
(* GeminiProvider: _upload_file / transcribe (variant "file") and          *)
(* _upload_bytes / transcribe_bytes (variant "bytes")                      *)
(***************************************************************************)
\* genai.upload_file returns a handle.
UploadSucceeds(v) ==
    /\ pv_variant = v
    /\ pv_pc = "upload"
    /\ uploads' = uploads + 1
    /\ file_handle' = TRUE
    /\ pv_pc' = "chat"
    /\ UNCHANGED <<provConf, retry_count, sleeps, pv_result>>

\* Variant: "retry_count <= self.max_retries".
UploadRaises_offbyone(v) ==
    /\ pv_variant = v
    /\ pv_pc = "upload"
    /\ uploads' = uploads + 1
    /\ IF retry_count <= max_retries
       THEN /\ sleeps' = Append(sleeps, 2 ^ retry_count)
            /\ retry_count' = retry_count + 1
            /\ UNCHANGED <<pv_pc, pv_result>>
       ELSE /\ pv_pc' = "returned"
            /\ pv_result' = NoResult
            /\ UNCHANGED <<sleeps, retry_count>>
    /\ UNCHANGED <<provConf, file_handle>>

\* The attempt raises.  Below the bound: sleep 2 ** retry_count and attempt
\* again with retry_count + 1.  At the bound: the upload returns None, the
\* caller raises ValueError inside its own try and returns None.
UploadRaises(v) ==
    /\ pv_variant = v
    /\ pv_pc = "upload"
    /\ uploads' = uploads + 1
    /\ IF retry_count < max_retries
       THEN /\ sleeps' = Append(sleeps, 2 ^ retry_count)
            /\ retry_count' = retry_count + 1
            /\ UNCHANGED <<pv_pc, pv_result>>
       ELSE /\ pv_pc' = "returned"
            /\ pv_result' = NoResult
            /\ UNCHANGED <<sleeps, retry_count>>
    /\ UNCHANGED <<provConf, file_handle>>

\* start_chat and send_message succeed: response.text is returned verbatim.
ChatReplies(v) ==
    /\ pv_variant = v
    /\ pv_pc = "chat"
    /\ \E text \in JobReplies : pv_result' = TextResult(text)
    /\ pv_pc' = "returned"
    /\ UNCHANGED <<provConf, retry_count, file_handle, uploads, sleeps>>

\* start_chat or send_message raises: logged, None is returned.
ChatRaises(v) ==
    /\ pv_variant = v
    /\ pv_pc = "chat"
    /\ pv_result' = NoResult
    /\ pv_pc' = "returned"
    /\ UNCHANGED <<provConf, retry_count, file_handle, uploads, sleeps>>

notProv == <<trConf, tr_pc, tr_trace, tr_result, out_files, combVars, clipVars, seg_dir,
             notJob>>

upload_file_ok == UploadSucceeds("file") /\ UNCHANGED notProv

upload_file_raises == UploadRaises("file") /\ UNCHANGED notProv

transcribe_chat_ok == ChatReplies("file") /\ UNCHANGED notProv

transcribe_chat_raises == ChatRaises("file") /\ UNCHANGED notProv

upload_bytes_ok == UploadSucceeds("bytes") /\ UNCHANGED notProv

upload_bytes_raises == UploadRaises("bytes") /\ UNCHANGED notProv

transcribe_bytes_chat_ok == ChatReplies("bytes") /\ UNCHANGED notProv

transcribe_bytes_chat_raises == ChatRaises("bytes") /\ UNCHANGED notProv

(***************************************************************************)
(* AudioTranscriber.transcribe                                             *)
(***************************************************************************)
\* The combined audio is written to <id>_processed.wav and
\* self.provider.transcribe is called.
SaveAudio ==
    /\ tr_pc = "save_audio"
    /\ out_files' = out_files \cup {ProcessedAudio}
    /\ pv_pc' = "upload"
    /\ retry_count' = 0
    /\ tr_pc' = "provider"
    /\ UNCHANGED <<trConf, tr_trace, tr_result, combVars, clipVars, provConf,
                   file_handle, uploads, sleeps, pv_result, seg_dir, notJob>>

\* "if not result": None and the empty string raise ValueError.
Falsy(result) == ~result.ok \/ result.text = <<>>

\* Variant: no "if not result" test.
CheckResult_unchecked ==
    /\ tr_pc = "provider"
    /\ pv_pc = "returned"
    /\ tr_pc' = "parse"
    /\ tr_trace' = Append(tr_trace, "transcribe")
    /\ UNCHANGED <<trConf, tr_result, out_files, combVars, clipVars, provVars, seg_dir,
                   notJob>>

\* Variant: the reply is not parsed before the clips are extracted.
CheckResult_skip_parse ==
    /\ tr_pc = "provider"
    /\ pv_pc = "returned"
    /\ IF Falsy(pv_result)
       THEN /\ tr_pc' = "raised"
            /\ UNCHANGED tr_trace
       ELSE /\ tr_pc' = "clips"
            /\ tr_trace' = Append(tr_trace, "transcribe")
    /\ UNCHANGED <<trConf, tr_result, out_files, combVars, clipVars, provVars, seg_dir,
                   notJob>>

CheckResult ==
    /\ tr_pc = "provider"
    /\ pv_pc = "returned"
    /\ IF Falsy(pv_result)
       THEN /\ tr_pc' = "raised"
            /\ UNCHANGED tr_trace
       ELSE /\ tr_pc' = "parse"
            /\ tr_trace' = Append(tr_trace, "transcribe")
    /\ UNCHANGED <<trConf, tr_result, out_files, combVars, clipVars, provVars, seg_dir,
                   notJob>>

\* segments = self.formatter.parse_transcription(result)
Parse ==
    /\ tr_pc = "parse"
    /\ reply_segments' = parse_transcription(pv_result.text, get_formatter(output_format))
    /\ tr_trace' = Append(tr_trace, "parse")
    /\ tr_pc' = "clips"
    /\ UNCHANGED <<trConf, tr_result, out_files, combVars, clip_todo, speaker_clips,
                   clip_runs, provVars, seg_dir, notJob>>

\* Variant: the transcript is written before the clips are extracted.
FindBest_write_first ==
    /\ tr_pc = "clips"
    /\ clip_todo' = find_best_segments(reply_segments)
    /\ out_files' = out_files \cup
                      {TranscriptPath(IF get_formatter(output_format) = "JsonFormatter"
                                      THEN "json" ELSE "txt")}
    /\ tr_pc' = "extract"
    /\ UNCHANGED <<trConf, tr_trace, tr_result, combVars, reply_segments,
                   speaker_clips, clip_runs, provVars, seg_dir, notJob>>

\* extract_speaker_clips: the best segment of each speaker is chosen.
FindBest ==
    /\ tr_pc = "clips"
    /\ clip_todo' = find_best_segments(reply_segments)
    /\ tr_pc' = "extract"
    /\ UNCHANGED <<trConf, tr_trace, tr_result, out_files, combVars, reply_segments,
                   speaker_clips, clip_runs, provVars, seg_dir, notJob>>

\* _extract_clip for the next speaker: the tool writes the clip.
ExtractClipOk ==
    /\ tr_pc = "extract"
    /\ clip_todo # <<>>
    /\ LET speaker == Head(clip_todo)[1] IN
        /\ out_files' = out_files \cup {ClipPath(speaker)}
        /\ speaker_clips' = Append(speaker_clips, <<speaker, ClipPath(speaker)>>)
    /\ clip_runs' = clip_runs + 1
    /\ clip_todo' = Tail(clip_todo)
    /\ UNCHANGED <<trConf, tr_pc, tr_trace, tr_result, combVars, reply_segments,
                   provVars, seg_dir, notJob>>

\* _extract_clip raises CalledProcessError: logged and re-raised twice.
ExtractClipFails ==
    /\ tr_pc = "extract"
    /\ clip_todo # <<>>
    /\ clip_runs' = clip_runs + 1
    /\ tr_pc' = "raised"
    /\ UNCHANGED <<trConf, tr_trace, tr_result, out_files, combVars, reply_segments,
                   clip_todo, speaker_clips, provVars, seg_dir, notJob>>

\* Every speaker has a clip: extract_speaker_clips returns the dict.
ClipsDone ==
    /\ tr_pc = "extract"
    /\ clip_todo = <<>>
    /\ tr_trace' = Append(tr_trace, "clips")
    /\ tr_pc' = "write"
    /\ UNCHANGED <<trConf, tr_result, out_files, combVars, clipVars, provVars, seg_dir,
                   notJob>>

\* The extension of the transcript: json for the JsonFormatter, else txt.
TranscriptExt == IF get_formatter(output_format) = "JsonFormatter" THEN "json" ELSE "txt"

\* The transcript is written and its path returned.
WriteTranscript ==
    /\ tr_pc = "write"
    /\ out_files' = out_files \cup {TranscriptPath(TranscriptExt)}
    /\ tr_result' = TranscriptPath(TranscriptExt)
    /\ tr_trace' = Append(tr_trace, "write")
    /\ tr_pc' = "returned"
    /\ UNCHANGED <<trConf, combVars, clipVars, provVars, seg_dir, notJob>>

(***************************************************************************)
(* BaseFormatter._parse_time, _convert_time; format_output                 *)
(***************************************************************************)
\* self._conversion_factors
conversion_factors == [ms |-> 1, s |-> 1000, min |-> 60000]

TimeUnits == {"ms", "s", "min"}

RECURSIVE GCD(_, _)
GCD(a, b) == IF b = 0 THEN a ELSE GCD(b, a % b)

\* A float that is the quotient num / den, in lowest terms.
Quotient(num, den) ==
    LET g == GCD(num, den) IN [num |-> num \div g, den |-> den \div g]

\* _parse_time: int(float(value) * factor); ValueError and TypeError give 0;
\* int() of an infinity raises OverflowError, which is not caught.
parse_time(value, unit) ==
    LET f == FloatOf(value) IN
    CASE f.kind = "number" -> [raised |-> FALSE, ms |-> f.val * conversion_factors[unit]]
      [] f.kind = "ValueError" -> [raised |-> FALSE, ms |-> 0]
      [] f.kind = "inf" -> [raised |-> TRUE]

(***************************************************************************)
(* Python floats.  A float of whole value is [num |-> n, den |-> 1]; any   *)
(* other is [sig |-> b, exp |-> e] with b its MantissaBits significand     *)
(* bits, most significant (a 1) first, and value b * 2^e.  Every result is *)
(* rounded to nearest, ties to even.  The values are positive and far from *)
(* the ends of the exponent range.                                         *)
(***************************************************************************)
\* The w-bit binary form of n, most significant bit first.
BitsOf(n, w) == [i \in 1..w |-> (n \div 2 ^ (w - i)) % 2]

\* The binary digits of n < 2^30, most significant first; none for 0.
Bits(n) == BitsOf(n, CHOOSE w \in 0..30 : n < 2 ^ w /\ (w = 0 \/ n >= 2 ^ (w - 1)))

RECURSIVE BitsValue(_)
BitsValue(b) ==
    IF b = <<>> THEN 0 ELSE 2 * BitsValue(SubSeq(b, 1, Len(b) - 1)) + b[Len(b)]

\* The position of the first 1 of a bit string that holds one.
FirstOne(b) == CHOOSE i \in 1..Len(b) : b[i] = 1 /\ \A j \in 1..(i - 1) : b[j] = 0

\* b + 1; one bit longer when b is all ones.
Increment(b) ==
    IF \A i \in 1..Len(b) : b[i] = 1 THEN <<1>> \o [i \in 1..Len(b) |-> 0]
    ELSE LET z == CHOOSE i \in 1..Len(b) : b[i] = 0 /\ \A j \in (i + 1)..Len(b) : b[j] = 1
         IN  [i \in 1..Len(b) |-> IF i < z THEN b[i] ELSE IF i = z THEN 1 ELSE 0]

\* The float nearest to bits * 2^exp (+ a non-zero remainder below the last
\* bit when sticky); bits holds at least MantissaBits bits and starts with 1.
RoundNearestEven(bits, exp, sticky) ==
    LET kept == SubSeq(bits, 1, MantissaBits)
        guard == IF Len(bits) > MantissaBits THEN bits[MantissaBits + 1] ELSE 0
        rest == sticky \/ \E i \in (MantissaBits + 2)..Len(bits) : bits[i] = 1
        up == guard = 1 /\ (rest \/ kept[MantissaBits] = 1)
        r == IF up THEN Increment(kept) ELSE kept
        e == exp + (Len(bits) - MantissaBits)
    IN  IF Len(r) > MantissaBits
        THEN [sig |-> SubSeq(r, 1, MantissaBits), exp |-> e + 1]
        ELSE [sig |-> r, exp |-> e]

\* Arithmetic on bit strings goes LimbBits bits at a time, so that every
\* intermediate product stays below 2^31.
LimbBits == 15

\* Long division of the remainder r by b, n limbs of quotient bits after
\* the binary point: the bits and the last remainder.
RECURSIVE DivLimbs(_, _, _)
DivLimbs(r, b, n) ==
    IF n = 0 THEN [bits |-> <<>>, rem |-> r]
    ELSE LET rest == DivLimbs((r * 2 ^ LimbBits) % b, b, n - 1) IN
         [bits |-> BitsOf((r * 2 ^ LimbBits) \div b, LimbBits) \o rest.bits,
          rem |-> rest.rem]

\* The limbs that give MantissaBits + 1 significant bits of a quotient below
\* one whose divisor is below 2^16.
QuotientLimbs == 5

\* a / b on ints: the exact quotient when it is whole, else the nearest float.
fdiv(a, b) ==
    LET q == Quotient(a, b) IN
    IF q.den = 1 THEN q
    ELSE LET frac == DivLimbs(q.num % q.den, q.den, QuotientLimbs)
             all == Bits(q.num \div q.den) \o frac.bits
             from == FirstOne(all)
             to == from + MantissaBits
         IN  RoundNearestEven(SubSeq(all, from, to), (Len(all) - to) - Len(frac.bits),
                              frac.rem # 0 \/ \E i \in (to + 1)..Len(all) : all[i] = 1)

\* The bits of sig * f + carry, sig taken limb by limb from its low end.
RECURSIVE MulLimbs(_, _, _)
MulLimbs(sig, f, carry) ==
    IF sig = <<>> THEN Bits(carry)
    ELSE LET k == Min(LimbBits, Len(sig))
             low == SubSeq(sig, Len(sig) - k + 1, Len(sig))
             t == BitsValue(low) * f + carry
         IN  MulLimbs(SubSeq(sig, 1, Len(sig) - k), f, t \div 2 ^ k) \o BitsOf(t % 2 ^ k, k)

\* x * f for a float x and an int f below 2^16.
fmul(x, f) ==
    IF "den" \in DOMAIN x THEN [num |-> x.num * f, den |-> 1]
    ELSE LET all == MulLimbs(x.sig, f, 0) IN
         RoundNearestEven(SubSeq(all, FirstOne(all), Len(all)), x.exp, FALSE)

\* int(x): the whole part.
int_of(x) ==
    IF "den" \in DOMAIN x THEN x.num
    ELSE IF MantissaBits + x.exp <= 0 THEN 0
    ELSE BitsValue(SubSeq(x.sig, 1, MantissaBits + x.exp))

\* _convert_time: ms / factor
convert_time(ms, unit) == fdiv(ms, conversion_factors[unit])

\* _parse_time on a float: int(float(value) * factor), float() of a float
\* being that float.
parse_time_float(x, unit) == int_of(fmul(x, conversion_factors[unit]))

\* self._convert_time(ms)
ConvertTime ==
    /\ conv_pc = "ready"
    /\ conv_x' = convert_time(conv_ms, time_unit)
    /\ conv_pc' = "converted"
    /\ UNCHANGED <<conv_ms, conv_back, time_unit, notConv>>

\* self._parse_time(x) on the float just returned
ParseTime ==
    /\ conv_pc = "converted"
    /\ conv_back' = parse_time_float(conv_x, time_unit)
    /\ conv_pc' = "parsed"
    /\ UNCHANGED <<conv_ms, conv_x, time_unit, notConv>>

\* format_output raised.
Raised == [raised |-> TRUE, entries |-> <<>>]

\* The loop of format_output over the lines: blank lines and lines that do
\* not unpack into three fields are skipped (ValueError); an exception of
\* _parse_time that is no ValueError or IndexError leaves the function.
RECURSIVE FormatLines(_, _, _)
FormatLines(lines, sep, unit) ==
    IF lines = <<>> THEN [raised |-> FALSE, entries |-> <<>>]
    ELSE LET line == Head(lines)
             f == Fields(line, sep)
         IN  IF Strip(line) = <<>> \/ Len(f) # 3
             THEN FormatLines(Tail(lines), sep, unit)
             ELSE LET t == parse_time(f[1], unit) IN
                  IF t.raised THEN Raised
                  ELSE LET rest == FormatLines(Tail(lines), sep, unit) IN
                       IF rest.raised THEN Raised
                       ELSE [raised |-> FALSE,
                             entries |-> <<[time |-> convert_time(t.ms, unit),
                                            speaker |-> f[2],
                                            transcription |-> f[3]]>> \o rest.entries]

\* TextFormatter.format_output and JsonFormatter.format_output: the entries
\* joined into the returned string, in order.
format_output(kind, unit, text) == FormatLines(SplitLines(text), Delimiter(kind), unit)

\* Decimal digits of n as tokens.
RECURSIVE DigitTokens(_)
DigitTokens(n) ==
    IF n < 10 THEN <<DigitChars[n + 1]>>
    ELSE Append(DigitTokens(n \div 10), DigitChars[(n % 10) + 1])

\* str() of a float of whole value below 1e16: the digits and ".0".
FloatRepr(x) == DigitTokens(x.num) \o <<".", "0">>

\* '\n'.join(lines)
RECURSIVE JoinLines(_)
JoinLines(lines) ==
    IF lines = <<>> THEN <<>>
    ELSE IF Len(lines) = 1 THEN lines[1]
    ELSE lines[1] \o <<"\n">> \o JoinLines(Tail(lines))

\* f"{converted_time};{speaker};{transcription}"
TextLine(entry) ==
    FloatRepr(entry.time) \o <<";">> \o entry.speaker \o <<";">> \o entry.transcription

\* TextFormatter.format_output: the returned string.
RenderText(entries) == JoinLines([k \in 1..Len(entries) |-> TextLine(entries[k])])

Indent(n) == [i \in 1..n |-> " "]

\* A JSON string; no token of the model needs an escape.
Quoted(s) == <<"\"">> \o s \o <<"\"">>

\* One entry as json.dumps(indent=2) writes it at nesting level 2; last
\* tells whether a comma follows.
JsonEntry(unit, entry, last) ==
    Indent(4) \o <<"{", "\n">>
    \o Indent(6) \o Quoted(<<"timestamp_", unit>>) \o <<":", " ">>
        \o FloatRepr(entry.time) \o <<",", "\n">>
    \o Indent(6) \o Quoted(<<"speaker">>) \o <<":", " ">>
        \o Quoted(entry.speaker) \o <<",", "\n">>
    \o Indent(6) \o Quoted(<<"transcription">>) \o <<":", " ">>
        \o Quoted(entry.transcription) \o <<"\n">>
    \o Indent(4) \o (IF last THEN <<"}", "\n">> ELSE <<"}", ",", "\n">>)

RECURSIVE JsonEntries(_, _)
JsonEntries(unit, entries) ==
    IF entries = <<>> THEN <<>>
    ELSE JsonEntry(unit, Head(entries), Len(entries) = 1) \o JsonEntries(unit, Tail(entries))

\* json.dumps({'segments': entries}, indent=2, ensure_ascii=False)
RenderJson(unit, entries) ==
    <<"{", "\n">> \o Indent(2) \o Quoted(<<"segments">>) \o <<":", " ">>
    \o (IF entries = <<>> THEN <<"[", "]">>
        ELSE <<"[", "\n">> \o JsonEntries(unit, entries) \o Indent(2) \o <<"]">>)
    \o <<"\n", "}">>

\* The string format_output returns, or that it raised.
format_output_str(kind, unit, text) ==
    LET r == format_output(kind, unit, text) IN
    IF r.raised THEN [raised |-> TRUE, str |-> <<>>]
    ELSE [raised |-> FALSE,
          str |-> IF kind = "JsonFormatter" THEN RenderJson(unit, r.entries)
                  ELSE RenderText(r.entries)]

NotFormatted == [raised |-> FALSE, str |-> <<>>]

FormatOutput ==
    /\ fmt_pc = "ready"
    /\ fmt_out' = format_output(fmt_kind, time_unit, fmt_text)
    /\ fmt_str' = format_output_str(fmt_kind, time_unit, fmt_text).str
    /\ fmt_pc' = "done"
    /\ UNCHANGED <<fmtConf, fmt_again, notFmt>>

\* format_output is called on the string it returned.
FormatAgain ==
    /\ fmt_pc = "done"
    /\ ~fmt_out.raised
    /\ fmt_again' = format_output_str(fmt_kind, time_unit, fmt_str)
    /\ fmt_pc' = "again"
    /\ UNCHANGED <<fmtConf, fmt_out, fmt_str, notFmt>>

(***************************************************************************)
(* RateLimiter (scrapers/x_scraper.py)                                     *)
(*                                                                         *)
(* Time is counted in ticks of 1/TicksPerSecond s and tokens in units of   *)
(* 1/TicksPerSecond of a token, so that time_passed * rate is exact.  The  *)
(* tasks run on one event loop: the code between two awaits is one step.   *)
(***************************************************************************)
Tasks == 1..NumTasks

\* One whole token.
Token == TicksPerSecond

\* asyncio.sleep(1 / self.rate) ends no earlier than 1/rate s from now.
SleepTicks == (TicksPerSecond + lim_rate - 1) \div lim_rate

\* min(self.burst, self.tokens + time_passed * self.rate)
Refilled == Min(lim_burst * Token, tokens + (clock - last_update) * lim_rate)

\* "while self.tokens <= 0"
LoopTest(tk) == tk <= 0

\* The body of "async with self.lock" from the loop test to the next
\* suspension or to the return: task t holds the lock.
Proceed(t) ==
    LET tk == IF LoopTest(tokens) THEN Refilled ELSE tokens IN
    /\ last_update' = clock
    /\ credited' = credited + (tk - tokens)
    /\ IF LoopTest(tk)
       THEN /\ tokens' = tk
            /\ acq_pc' = [acq_pc EXCEPT ![t] = "sleeping"]
            /\ wake_at' = [wake_at EXCEPT ![t] = clock + SleepTicks]
            /\ lock_owner' = t
            /\ UNCHANGED <<returned, pre_debit, due, debited>>
       ELSE /\ pre_debit' = tk
            /\ debited' = debited + Token
            /\ due' = Refilled
            /\ tokens' = tk - Token
            /\ acq_pc' = [acq_pc EXCEPT ![t] = "idle"]
            /\ lock_owner' = 0
            /\ returned' = returned + 1
            /\ UNCHANGED wake_at

\* A task is inside asyncio.sleep and its delay has not elapsed.
SleepPending == \E t \in Tasks : acq_pc[t] = "sleeping" /\ clock < wake_at[t]

\* The clock advances: freely up to MaxClock, and past it for as long as a
\* sleep is pending.
Tick ==
    /\ clock < MaxClock \/ SleepPending
    /\ clock' = clock + 1
    /\ UNCHANGED <<limConf, tokens, last_update, lock_owner, lock_waiters, acq_pc,
                   wake_at, acquire_calls, returned, pre_debit, due, credited,
                   debited, notLim>>

\* Variant: acquire() without "async with self.lock".
LockFree_unlocked == TRUE

\* asyncio.Lock.acquire takes the lock at once when it is neither held nor
\* awaited.
LockFree == lock_owner = 0 /\ lock_waiters = <<>>

\* A task calls acquire() and finds the lock free.
AcquireEnter ==
    \E t \in Tasks :
        /\ acq_pc[t] = "idle"
        /\ acquire_calls < MaxCalls
        /\ LockFree
        /\ acquire_calls' = acquire_calls + 1
        /\ Proceed(t)
        /\ UNCHANGED <<limConf, clock, lock_waiters, notLim>>

\* A task calls acquire() while the lock is held or awaited: it queues.
AcquireWait ==
    \E t \in Tasks :
        /\ acq_pc[t] = "idle"
        /\ acquire_calls < MaxCalls
        /\ ~LockFree
        /\ acquire_calls' = acquire_calls + 1
        /\ acq_pc' = [acq_pc EXCEPT ![t] = "waiting"]
        /\ lock_waiters' = Append(lock_waiters, t)
        /\ UNCHANGED <<limConf, tokens, last_update, clock, lock_owner, wake_at,
                       returned, pre_debit, due, credited, debited, notLim>>

\* Variant: a released lock wakes no waiter.
LockGranted_never == FALSE

\* The lock was released: the first waiter takes it.
LockGranted ==
    \E t \in Tasks :
        /\ acq_pc[t] = "waiting"
        /\ lock_owner = 0
        /\ lock_waiters # <<>> /\ Head(lock_waiters) = t
        /\ lock_waiters' = Tail(lock_waiters)
        /\ Proceed(t)
        /\ UNCHANGED <<limConf, clock, acquire_calls, notLim>>

\* asyncio.sleep is over: the loop tests again.
Wake ==
    \E t \in Tasks :
        /\ acq_pc[t] = "sleeping"
        /\ clock >= wake_at[t]
        /\ Proceed(t)
        /\ UNCHANGED <<limConf, clock, lock_waiters, acquire_calls, notLim>>

(***************************************************************************)
(* XScraper.get_user_tweets (scrapers/x_scraper.py)                        *)
(*                                                                         *)
(* The coroutine runs on one event loop: a step is the code between two    *)
(* awaits.  A tweet is [id, day]: day 0 stands for no created_at, -1 for a *)
(* created_at that strptime rejects.  rate_limiter.acquire() is a call     *)
(* that returns; the limiter itself is the component above.                *)
(***************************************************************************)
\* retry_delay: float = 60.0
RetryDelay == 60

NoArchive == [written |-> FALSE]

NoHeader == <<>>

NoReply == [kind |-> "none"]

PageReply == [kind |-> "page"]

ErrorReply == [kind |-> "error"]

\* TooManyRequests carrying the response headers.
RateLimitReply(header) == [kind |-> "rate_limit", header |-> header]

\* The values of the header x-rate-limit-reset.
ResetHeaders == {NoHeader, <<"3", "0">>}

\* Variant: the header is ignored.
WaitTime_default(header) == RetryDelay

\* float(e.headers.get('x-rate-limit-reset', retry_delay))
WaitTime(header) == IF header = NoHeader THEN RetryDelay ELSE FloatOf(header).val

XTweets == [id : 1..MaxIds, day : -1..MaxDay]

\* What a page fetch can return; the empty page is falsy.
XPages == UNION {[1..k -> XTweets] : k \in 0..MaxPageLen}

\* Variant: no tweet limit test.
LimitReached_never(tweets) == FALSE

\* "max_tweets and len(tweets) >= max_tweets"
LimitReached(tweets) == x_max_tweets # 0 /\ Len(tweets) >= x_max_tweets

\* Variant: no duplicate filter.
Seen_never(id, seen) == FALSE

\* "tweet.id in seen_tweet_ids"
Seen(id, seen) == id \in seen

\* Variant: no date floor test.
BeforeFloor_never(day) == FALSE

\* Variant: a tweet of the day before the floor passes.
BeforeFloor_exclusive(day) == x_since # 0 /\ day + 1 < x_since

\* "since_timestamp and tweet_date.date() < since_timestamp.date()"
BeforeFloor(day) == x_since # 0 /\ day < x_since

\* The loop "for tweet in user_tweets" from item i on; acc holds tweets,
\* seen_tweet_ids, tweets_added_in_batch and reached_date_limit_in_batch.
RECURSIVE ProcessFrom(_, _, _)
ProcessFrom(page, i, acc) ==
    IF i > Len(page) THEN acc
    ELSE IF LimitReached(acc.tweets) THEN acc
    ELSE IF Seen(page[i].id, acc.seen)
         THEN ProcessFrom(page, i + 1, [acc EXCEPT !.skipped = TRUE])
    ELSE IF page[i].day = -1 THEN ProcessFrom(page, i + 1, acc)
    ELSE IF page[i].day # 0 /\ BeforeFloor(page[i].day) THEN [acc EXCEPT !.hit = TRUE]
    ELSE ProcessFrom(page, i + 1,
                     [acc EXCEPT !.tweets = Append(@, page[i]),
                                 !.seen = @ \cup {page[i].id},
                                 !.added = @ + 1])

ProcessPage(page) ==
    ProcessFrom(page, 1, [tweets |-> x_tweets, seen |-> x_seen, added |-> 0,
                          hit |-> FALSE, skipped |-> x_skipped])

\* The archive is written and its path returned.
Save(tweets, why) ==
    /\ x_archive' = [written |-> TRUE, tweets |-> tweets, tweet_count |-> Len(tweets)]
    /\ x_stop' = why
    /\ x_pc' = "returned"

\* "while user_tweets:" with the page in hand, up to the next await.
PageLoop(page) ==
    IF page = <<>>
    THEN /\ Save(x_tweets, "empty")
         /\ UNCHANGED <<x_tweets, x_seen, x_skipped>>
    ELSE LET r == ProcessPage(page) IN
         /\ x_tweets' = r.tweets
         /\ x_seen' = r.seen
         /\ x_skipped' = r.skipped
         /\ IF LimitReached(r.tweets) THEN Save(r.tweets, "limit")
            ELSE IF r.hit /\ r.added = 0 THEN Save(r.tweets, "date")
            ELSE /\ x_pc' = "next_acquire"
                 /\ UNCHANGED <<x_stop, x_archive>>

\* get_user_by_screen_name returns the user.
XUserFound ==
    /\ x_pc = "user"
    /\ x_in_flight' = 0
    /\ x_pc' = "start"
    /\ UNCHANGED <<xConf, x_page, x_tweets, x_seen, x_retry, x_fetches, x_acquired,
                   x_waits, x_wait, x_stop, x_error, x_archive, x_skipped,
                   x_reply, notX>>

\* get_user_by_screen_name raises or returns nothing.
XUserFails ==
    /\ x_pc = "user"
    /\ x_in_flight' = 0
    /\ x_pc' = "raised"
    /\ x_error' = "other"
    /\ UNCHANGED <<xConf, x_page, x_tweets, x_seen, x_retry, x_fetches, x_acquired,
                   x_waits, x_wait, x_stop, x_archive, x_skipped,
                   x_reply, notX>>

\* "while retry_count < max_retries": the first acquire() is called.
XFirstAcquire ==
    /\ x_pc = "start"
    /\ x_retry < x_max_retries
    /\ x_pc' = "first_acquire"
    /\ UNCHANGED <<xConf, x_page, x_tweets, x_seen, x_retry, x_in_flight, x_fetches,
                   x_acquired, x_waits, x_wait, x_stop, x_error, x_archive, x_skipped,
                   x_reply, notX>>

\* The retry loop is not entered at all.
XNoAttempt ==
    /\ x_pc = "start"
    /\ ~(x_retry < x_max_retries)
    /\ Save(x_tweets, "no_attempt")
    /\ UNCHANGED <<xConf, x_page, x_tweets, x_seen, x_retry, x_in_flight, x_fetches,
                   x_acquired, x_waits, x_wait, x_error, x_skipped,
                   x_reply, notX>>

\* Variant: the page request is sent without waiting for acquire().
Granted_not(n) == n

\* "await self.rate_limiter.acquire()" has returned once more.
Granted(n) == n + 1

\* acquire() returned: the page request is sent.
XAcquired ==
    /\ x_pc \in {"first_acquire", "next_acquire"}
    /\ x_fetches < MaxFetches
    /\ x_acquired' = Granted(x_acquired)
    /\ x_fetches' = x_fetches + 1
    /\ x_in_flight' = x_in_flight + 1
    /\ x_pc' = IF x_pc = "first_acquire" THEN "first_fetch" ELSE "next_fetch"
    /\ UNCHANGED <<xConf, x_page, x_tweets, x_seen, x_retry, x_waits, x_wait, x_stop,
                   x_error, x_archive, x_skipped,
                   x_reply, notX>>

\* client.get_user_tweets returns the first page.
XFirstPage ==
    /\ x_pc = "first_fetch"
    /\ x_in_flight' = x_in_flight - 1
    /\ \E page \in XPages :
          /\ x_page' = page
          /\ PageLoop(page)
    /\ x_reply' = PageReply
    /\ UNCHANGED <<xConf, x_retry, x_fetches, x_acquired, x_waits, x_wait, x_error, notX>>

\* The first page fetch raises TooManyRequests: the outer handler.
XFirstRateLimited ==
    /\ x_pc = "first_fetch"
    /\ x_in_flight' = x_in_flight - 1
    /\ \E header \in ResetHeaders : x_reply' = RateLimitReply(header)
    /\ x_retry' = x_retry + 1
    /\ IF x_retry + 1 >= x_max_retries
       THEN /\ x_pc' = "raised"
            /\ x_error' = "TooManyRequests"
            /\ UNCHANGED <<x_waits, x_wait>>
       ELSE /\ x_wait' = WaitTime(x_reply'.header)
            /\ x_waits' = x_waits + 1
            /\ x_pc' = "outer_sleep"
            /\ UNCHANGED x_error
    /\ UNCHANGED <<xConf, x_page, x_tweets, x_seen, x_fetches, x_acquired, x_stop,
                   x_archive, x_skipped, notX>>

\* The first page fetch raises another exception: logged and re-raised.
XFirstFails ==
    /\ x_pc = "first_fetch"
    /\ x_in_flight' = x_in_flight - 1
    /\ x_pc' = "raised"
    /\ x_error' = "other"
    /\ x_reply' = ErrorReply
    /\ UNCHANGED <<xConf, x_page, x_tweets, x_seen, x_retry, x_fetches, x_acquired,
                   x_waits, x_wait, x_stop, x_archive, x_skipped, notX>>

\* user_tweets.next() returns the next page; asyncio.sleep(0.5) follows.
XNextPage ==
    /\ x_pc = "next_fetch"
    /\ x_in_flight' = x_in_flight - 1
    /\ x_page' \in XPages
    /\ x_pc' = "pause"
    /\ x_reply' = PageReply
    /\ UNCHANGED <<xConf, x_tweets, x_seen, x_retry, x_fetches, x_acquired, x_waits,
                   x_wait, x_stop, x_error, x_archive, x_skipped, notX>>

\* Variant: the collected tweets are written before the cap is reported.
XNextRateLimited_saves ==
    /\ x_pc = "next_fetch"
    /\ x_in_flight' = x_in_flight - 1
    /\ \E header \in ResetHeaders : x_reply' = RateLimitReply(header)
    /\ IF x_retry + 1 >= x_max_retries
       THEN /\ x_retry' = x_retry + 2
            /\ x_pc' = "raised"
            /\ x_error' = "TooManyRequests"
            /\ x_archive' = [written |-> TRUE, tweets |-> x_tweets,
                             tweet_count |-> Len(x_tweets)]
            /\ UNCHANGED <<x_waits, x_wait>>
       ELSE /\ x_retry' = x_retry + 1
            /\ x_wait' = WaitTime(x_reply'.header)
            /\ x_waits' = x_waits + 1
            /\ x_pc' = "inner_sleep"
            /\ UNCHANGED <<x_error, x_archive>>
    /\ UNCHANGED <<xConf, x_page, x_tweets, x_seen, x_fetches, x_acquired, x_stop,
                   x_skipped, notX>>

\* user_tweets.next() raises TooManyRequests: the inner handler; its raise
\* is caught by the outer handler, which counts once more and re-raises.
XNextRateLimited ==
    /\ x_pc = "next_fetch"
    /\ x_in_flight' = x_in_flight - 1
    /\ \E header \in ResetHeaders : x_reply' = RateLimitReply(header)
    /\ IF x_retry + 1 >= x_max_retries
       THEN /\ x_retry' = x_retry + 2
            /\ x_pc' = "raised"
            /\ x_error' = "TooManyRequests"
            /\ UNCHANGED <<x_waits, x_wait>>
       ELSE /\ x_retry' = x_retry + 1
            /\ x_wait' = WaitTime(x_reply'.header)
            /\ x_waits' = x_waits + 1
            /\ x_pc' = "inner_sleep"
            /\ UNCHANGED x_error
    /\ UNCHANGED <<xConf, x_page, x_tweets, x_seen, x_fetches, x_acquired, x_stop,
                   x_archive, x_skipped, notX>>

\* Variant: the exception of user_tweets.next() is re-raised.
XNextFails_raises ==
    /\ x_pc = "next_fetch"
    /\ x_in_flight' = x_in_flight - 1
    /\ x_reply' = ErrorReply
    /\ x_pc' = "raised"
    /\ x_error' = "other"
    /\ UNCHANGED <<xConf, x_page, x_tweets, x_seen, x_retry, x_fetches, x_acquired,
                   x_waits, x_wait, x_stop, x_archive, x_skipped, notX>>

\* user_tweets.next() raises another exception: "No more tweets available",
\* the loop ends and the archive is written.
XNextFails ==
    /\ x_pc = "next_fetch"
    /\ x_in_flight' = x_in_flight - 1
    /\ Save(x_tweets, "error")
    /\ x_reply' = ErrorReply
    /\ UNCHANGED <<xConf, x_page, x_tweets, x_seen, x_retry, x_fetches, x_acquired,
                   x_waits, x_wait, x_error, x_skipped, notX>>

\* The rate-limit sleep of the outer handler is over: the loop test again.
XOuterSleepDone ==
    /\ x_pc = "outer_sleep"
    /\ x_pc' = "start"
    /\ UNCHANGED <<xConf, x_page, x_tweets, x_seen, x_retry, x_in_flight, x_fetches,
                   x_acquired, x_waits, x_wait, x_stop, x_error, x_archive, x_skipped,
                   x_reply, notX>>

\* The rate-limit sleep of the inner handler is over; asyncio.sleep(0.5)
\* follows.
XInnerSleepDone ==
    /\ x_pc = "inner_sleep"
    /\ x_pc' = "pause"
    /\ UNCHANGED <<xConf, x_page, x_tweets, x_seen, x_retry, x_in_flight, x_fetches,
                   x_acquired, x_waits, x_wait, x_stop, x_error, x_archive, x_skipped,
                   x_reply, notX>>

\* asyncio.sleep(0.5) is over: the page loop runs on the page in hand.
XPauseDone ==
    /\ x_pc = "pause"
    /\ PageLoop(x_page)
    /\ UNCHANGED <<xConf, x_page, x_retry, x_in_flight, x_fetches, x_acquired, x_waits,
                   x_wait, x_error, x_reply, notX>>

(***************************************************************************)
(* Initial states and specifications                                       *)
(***************************************************************************)
FetchIdle ==
    /\ segment_duration = SecondsPerMinute
    /\ max_concurrent = 1
    /\ duration = 0
    /\ segments = <<>>
    /\ dl_pc = "idle"
    /\ status = <<>>
    /\ completed = <<>>
    /\ taken = 0
    /\ segment_files = <<>>
    /\ dl_result = <<>>
    /\ attempts = <<>>

JobIdle ==
    /\ segment_paths = <<>>
    /\ output_format = "json"
    /\ tr_pc = "idle"
    /\ tr_trace = <<>>
    /\ tr_result = <<>>
    /\ out_files = {}
    /\ seg_dir_exists = TRUE
    /\ ffmpeg_out = "none"
    /\ unlinked = 0
    /\ reply_segments = <<>>
    /\ clip_todo = <<>>
    /\ speaker_clips = <<>>
    /\ clip_runs = 0
    /\ max_retries = 0
    /\ pv_variant = "file"
    /\ pv_pc = "idle"
    /\ retry_count = 0
    /\ file_handle = FALSE
    /\ uploads = 0
    /\ sleeps = <<>>
    /\ pv_result = NoResult

FmtIdle ==
    /\ fmt_kind = "TextFormatter"
    /\ time_unit = "ms"
    /\ fmt_text = <<>>
    /\ fmt_pc = "idle"
    /\ fmt_out = [raised |-> FALSE, entries |-> <<>>]
    /\ fmt_str = <<>>
    /\ fmt_again = NotFormatted

ConvIdle ==
    /\ conv_ms = 0
    /\ conv_pc = "idle"
    /\ conv_x = [num |-> 0, den |-> 1]
    /\ conv_back = 0

\* RateLimiter.__init__: a full bucket, nobody in acquire().
LimFresh ==
    /\ tokens = lim_burst * Token
    /\ last_update = 0
    /\ clock = 0
    /\ lock_owner = 0
    /\ lock_waiters = <<>>
    /\ acq_pc = [t \in Tasks |-> "idle"]
    /\ wake_at = [t \in Tasks |-> 0]
    /\ acquire_calls = 0
    /\ returned = 0
    /\ pre_debit = lim_burst * Token
    /\ due = lim_burst * Token
    /\ credited = 0
    /\ debited = 0

LimIdle ==
    /\ lim_rate = 1
    /\ lim_burst = 1
    /\ LimFresh

\* The locals of get_user_tweets before the loop.
XFresh ==
    /\ x_page = <<>>
    /\ x_tweets = <<>>
    /\ x_seen = {}
    /\ x_retry = 0
    /\ x_fetches = 0
    /\ x_acquired = 0
    /\ x_waits = 0
    /\ x_wait = 0
    /\ x_stop = "none"
    /\ x_error = "none"
    /\ x_archive = NoArchive
    /\ x_skipped = FALSE
    /\ x_reply = NoReply

XIdle ==
    /\ x_since = 0
    /\ x_max_tweets = 0
    /\ x_max_retries = 0
    /\ x_pc = "idle"
    /\ x_in_flight = 0
    /\ XFresh

FetchInit ==
    /\ segment_duration \in {m * SecondsPerMinute : m \in 1..MaxSegMinutes}
    /\ max_concurrent \in 1..MaxConcurrent
    /\ duration \in {d \in 0..MaxDuration : d <= MaxWindows * segment_duration}
    /\ segments = <<>>
    /\ dl_pc = "info"
    /\ status = <<>>
    /\ completed = <<>>
    /\ taken = 0
    /\ segment_files = <<>>
    /\ dl_result = <<>>
    /\ seg_dir = {}
    /\ attempts = <<>>
    /\ JobIdle
    /\ FmtIdle
    /\ ConvIdle
    /\ LimIdle
    /\ XIdle

FetchNext ==
    \/ InfoFails
    \/ PlanSegments
    \/ Submit
    \/ WorkerStart
    \/ DownloadOk
    \/ DownloadFails
    \/ Collect
    \/ Return
    \/ Shutdown

SpecFetch == FetchInit /\ [][FetchNext]_vars

\* The planner alone, over every duration up to MaxDuration.
PlanInit ==
    /\ segment_duration \in {m * SecondsPerMinute : m \in 1..MaxSegMinutes}
    /\ max_concurrent = 1
    /\ duration \in 0..MaxDuration
    /\ segments = <<>>
    /\ dl_pc = "info"
    /\ status = <<>>
    /\ completed = <<>>
    /\ taken = 0
    /\ segment_files = <<>>
    /\ dl_result = <<>>
    /\ seg_dir = {}
    /\ attempts = <<>>
    /\ JobIdle
    /\ FmtIdle
    /\ ConvIdle
    /\ LimIdle
    /\ XIdle

PlanNext == PlanSegments

SpecPlan == PlanInit /\ [][PlanNext]_vars

\* The segment files download() returns for a source of n windows.
DownloadedPaths(n) == [i \in 1..n |-> SegmentPath(TitleOf(i))]

\* A transcription job on the files of a finished download, or a direct
\* call of transcribe_bytes.
JobInit ==
    /\ FetchIdle
    /\ seg_dir_exists = TRUE
    /\ FmtIdle
    /\ ConvIdle
    /\ LimIdle
    /\ XIdle
    /\ \E n \in 1..MaxWindows : segment_paths = DownloadedPaths(n)
    /\ \E others \in SUBSET {OtherFile} : seg_dir = Range(segment_paths) \cup others
    /\ output_format \in {"json", "txt"}
    /\ max_retries \in 0..MaxRetries
    /\ \/ pv_variant = "file" /\ tr_pc = "combine" /\ pv_pc = "idle"
       \/ pv_variant = "bytes" /\ tr_pc = "idle" /\ pv_pc = "upload"
    /\ tr_trace = <<>>
    /\ tr_result = <<>>
    /\ out_files = {}
    /\ ffmpeg_out = "none"
    /\ unlinked = 0
    /\ reply_segments = <<>>
    /\ clip_todo = <<>>
    /\ speaker_clips = <<>>
    /\ clip_runs = 0
    /\ retry_count = 0
    /\ file_handle = FALSE
    /\ uploads = 0
    /\ sleeps = <<>>
    /\ pv_result = NoResult

JobNext ==
    \/ FfmpegFails
    \/ FfmpegEmpty
    \/ FfmpegOk
    \/ Unlink
    \/ RemoveDir
    \/ SaveAudio
    \/ upload_file_ok
    \/ upload_file_raises
    \/ transcribe_chat_ok
    \/ transcribe_chat_raises
    \/ upload_bytes_ok
    \/ upload_bytes_raises
    \/ transcribe_bytes_chat_ok
    \/ transcribe_bytes_chat_raises
    \/ CheckResult
    \/ Parse
    \/ FindBest
    \/ ExtractClipOk
    \/ ExtractClipFails
    \/ ClipsDone
    \/ WriteTranscript

SpecJob == JobInit /\ [][JobNext]_vars

\* The tokens of a reply.
ReplyTokens == {"1", "inf", ";", "|", " ", "\n"}

\* Every reply of at most n tokens.
Replies(n) == UNION {[1..k -> ReplyTokens] : k \in 0..n}

\* format_output of either formatter on any reply.
FormatInit ==
    /\ FetchIdle
    /\ seg_dir = {}
    /\ JobIdle
    /\ fmt_kind \in {"TextFormatter", "JsonFormatter"}
    /\ time_unit \in TimeUnits
    /\ fmt_text \in Replies(MaxTextLen)
    /\ fmt_pc = "ready"
    /\ fmt_out = [raised |-> FALSE, entries |-> <<>>]
    /\ fmt_str = <<>>
    /\ fmt_again = NotFormatted
    /\ ConvIdle
    /\ LimIdle
    /\ XIdle

FormatNext == FormatOutput

SpecFormat == FormatInit /\ [][FormatNext]_vars

\* The fields of well-formed reply lines: timestamps (numerals, and the
\* clock forms 00:00:00.000 and 00:00:02.500), speakers and texts, the text
\* possibly holding the delimiter.
Stamps ==
    { <<"1">>, <<"1", "5", "0", "0">>, <<"2", ".", "0">>,
      <<"0", "0", ":", "0", "0", ":", "0", "0", ".", "0", "0", "0">>,
      <<"0", "0", ":", "0", "0", ":", "0", "2", ".", "5", "0", "0">> }

SpeakerNames == { <<"Speaker", " ", "1">>, <<"Speaker", " ", "2">> }

Texts(sep) == { <<"Hello">>, <<"Hi">>, <<"Hi", sep, "Hello">> }

\* timestamp<sep>speaker<sep>text, without stray whitespace.
ReplyLine(stamp, speaker, text, sep) == stamp \o <<sep>> \o speaker \o <<sep>> \o text

ReplyLines(sep) ==
    {ReplyLine(t, sp, tx, sep) : t \in Stamps, sp \in SpeakerNames, tx \in Texts(sep)}

\* The well-formed replies of 1..n lines written with the delimiter sep.
WellFormedReplies(n, sep) ==
    UNION {{JoinLines(ls) : ls \in [1..k -> ReplyLines(sep)]} : k \in 1..n}

\* format_output on a well-formed reply, then on its own output.  The
\* text formatter is given semicolon replies, the JSON formatter semicolon
\* or bar replies.
RoundTripInit ==
    /\ FetchIdle
    /\ seg_dir = {}
    /\ JobIdle
    /\ fmt_kind \in {"TextFormatter", "JsonFormatter"}
    /\ time_unit \in TimeUnits
    /\ \E sep \in {";", "|"} :
          /\ fmt_kind = "TextFormatter" => sep = ";"
          /\ fmt_text \in WellFormedReplies(MaxLines, sep)
    /\ fmt_pc = "ready"
    /\ fmt_out = [raised |-> FALSE, entries |-> <<>>]
    /\ fmt_str = <<>>
    /\ fmt_again = NotFormatted
    /\ ConvIdle
    /\ LimIdle
    /\ XIdle

RoundTripNext ==
    \/ FormatOutput
    \/ FormatAgain

SpecRoundTrip == RoundTripInit /\ [][RoundTripNext]_vars

\* The duration fields of a segment: none, 00:00:04, 00:00:10, and "10",
\* which does not split into three fields.
NoDuration == <<>>

Dur4 == <<"0", "0", ":", "0", "0", ":", "0", "4">>

Dur10 == <<"0", "0", ":", "0", "0", ":", "1", "0">>

ClipDurations == {NoDuration, Dur4, Dur10, <<"1", "0">>}

ClipSpeakers == { <<"A">>, <<"a">>, <<"B">> }

\* The segment at position i: its timestamp is the numeral of i.
SegmentAt(i, speaker, dur) ==
    IF dur = NoDuration
    THEN [timestamp |-> DigitTokens(i), speaker |-> speaker, text |-> <<"a">>]
    ELSE [timestamp |-> DigitTokens(i), speaker |-> speaker, text |-> <<"a">>,
          duration |-> dur]

\* Every segment list of at most n segments.
SegmentLists(n) ==
    UNION {{[i \in 1..k |-> SegmentAt(i, sp[i], du[i])] :
                sp \in [1..k -> ClipSpeakers], du \in [1..k -> ClipDurations]} :
           k \in 0..n}

\* extract_speaker_clips called on the processed audio and a segment list.
ClipInit ==
    /\ FetchIdle
    /\ seg_dir = {}
    /\ FmtIdle
    /\ ConvIdle
    /\ LimIdle
    /\ XIdle
    /\ segment_paths = <<>>
    /\ output_format = "json"
    /\ tr_pc = "clips"
    /\ tr_trace = <<>>
    /\ tr_result = <<>>
    /\ out_files = {ProcessedAudio}
    /\ seg_dir_exists = FALSE
    /\ ffmpeg_out = "none"
    /\ unlinked = 0
    /\ reply_segments \in SegmentLists(MaxSegments)
    /\ clip_todo = <<>>
    /\ speaker_clips = <<>>
    /\ clip_runs = 0
    /\ max_retries = 0
    /\ pv_variant = "file"
    /\ pv_pc = "idle"
    /\ retry_count = 0
    /\ file_handle = FALSE
    /\ uploads = 0
    /\ sleeps = <<>>
    /\ pv_result = NoResult

ClipNext ==
    \/ FindBest
    \/ ExtractClipOk
    \/ ExtractClipFails
    \/ ClipsDone

SpecClip == ClipInit /\ [][ClipNext]_vars

\* A limiter of any burst and rate, and tasks calling acquire().
LimiterInit ==
    /\ FetchIdle
    /\ seg_dir = {}
    /\ JobIdle
    /\ FmtIdle
    /\ ConvIdle
    /\ lim_rate \in 1..MaxRate
    /\ lim_burst \in 1..MaxBurst
    /\ LimFresh
    /\ XIdle

LimiterNext ==
    \/ Tick
    \/ AcquireEnter
    \/ AcquireWait
    \/ LockGranted
    \/ Wake

SpecLimiter == LimiterInit /\ [][LimiterNext]_vars

\* The event loop runs every callback that is ready (the end of a sleep, the
\* wake-up of the first lock waiter), and time advances.
LimiterFairness ==
    /\ WF_vars(Tick)
    /\ WF_vars(Wake)
    /\ WF_vars(LockGranted)

SpecLimiterLive == LimiterInit /\ [][LimiterNext]_vars /\ LimiterFairness

\* get_user_tweets on an authenticated scraper: the user request is out.
ScraperInit ==
    /\ FetchIdle
    /\ seg_dir = {}
    /\ JobIdle
    /\ FmtIdle
    /\ ConvIdle
    /\ LimIdle
    /\ x_since \in 0..MaxDay
    /\ x_max_tweets \in 0..MaxTweets
    /\ x_max_retries \in 0..XMaxRetries
    /\ x_pc = "user"
    /\ x_in_flight = 1
    /\ XFresh

ScraperNext ==
    \/ XUserFound
    \/ XUserFails
    \/ XFirstAcquire
    \/ XNoAttempt
    \/ XAcquired
    \/ XFirstPage
    \/ XFirstRateLimited
    \/ XFirstFails
    \/ XNextPage
    \/ XNextRateLimited
    \/ XNextFails
    \/ XOuterSleepDone
    \/ XInnerSleepDone
    \/ XPauseDone

SpecScraper == ScraperInit /\ [][ScraperNext]_vars

\* _convert_time on a millisecond count, then _parse_time on the result.
ConvertInit ==
    /\ FetchIdle
    /\ seg_dir = {}
    /\ JobIdle
    /\ fmt_kind = "TextFormatter"
    /\ time_unit \in TimeUnits
    /\ fmt_text = <<>>
    /\ fmt_pc = "idle"
    /\ fmt_out = [raised |-> FALSE, entries |-> <<>>]
    /\ fmt_str = <<>>
    /\ fmt_again = NotFormatted
    /\ conv_ms \in 0..MaxMillis
    /\ conv_pc = "ready"
    /\ conv_x = [num |-> 0, den |-> 1]
    /\ conv_back = 0
    /\ LimIdle
    /\ XIdle

ConvertNext ==
    \/ ConvertTime
    \/ ParseTime

SpecConvert == ConvertInit /\ [][ConvertNext]_vars

(***************************************************************************)
(* Properties                                                              *)
(***************************************************************************)
CeilDiv(a, b) == (a + b - 1) \div b

Bounds(segs) == [i \in 1..Len(segs) |-> <<segs[i].start_time, segs[i].end_time>>]

\* C1: for a duration D > 0 the planned windows start at 0, each starts
\* where the previous one ends, each has start < end, the last ends at D and
\* there are ceil(D / L) of them; D = 720, L = 300 gives [0,300), [300,600),
\* [600,720).
C1_PlannerCoversDuration ==
    (dl_pc = "submit" /\ duration > 0) =>
        LET n == Len(segments) IN
        /\ n = CeilDiv(duration, segment_duration)
        /\ segments[1].start_time = 0
        /\ \A i \in 1..(n - 1) : segments[i + 1].start_time = segments[i].end_time
        /\ \A i \in 1..n : segments[i].start_time < segments[i].end_time
        /\ segments[n].end_time = duration
        /\ (duration = 720 /\ segment_duration = 300) =>
              Bounds(segments) = << <<0, 300>>, <<300, 600>>, <<600, 720>> >>

C1_Witness ==
    /\ dl_pc = "submit"
    /\ duration = 720
    /\ segment_duration = 300
    /\ Len(segments) = 3

\* The largest window count whose label fills the pad width: 999.
MaxLabel == 10 ^ PadWidth - 1

\* C2: the list download returns holds exactly one path per planned window,
\* the i-th path being the file of the i-th window, whatever the order in
\* which the downloads completed; and the file name of each window up to
\* MaxLabel sorts before the name of the next one (evaluated once per
\* fetch, when it starts).
C2_ResultInWindowOrder ==
    /\ dl_pc = "returned" =>
          /\ Len(dl_result) = Len(segments)
          /\ \A i \in Windows : dl_result[i] = SegmentPath(segments[i].title)
    /\ dl_pc = "info" =>
          \A n \in 1..(MaxLabel - 1) :
              StrLess(SegmentPath(TitleOf(n)), SegmentPath(TitleOf(n + 1)))

C2_Witness ==
    /\ dl_pc = "returned"
    /\ Len(segments) >= 3
    /\ completed[1] > completed[2]

\* C3: a failed window download never lets download return a list: the
\* fetch ends raised with nothing returned; no window is downloaded twice and
\* the file of every successful window stays in the directory.
C3_FailureAbortsFetch ==
    /\ dl_pc = "returned" => \A i \in Windows : status[i] = "ok"
    /\ (\E i \in Windows : status[i] = "failed") =>
          /\ dl_result = <<>>
          /\ dl_pc # "returned"
          /\ ~ENABLED FetchNext => dl_pc = "raised"
    /\ \A i \in Windows :
          /\ attempts[i] <= 1
          /\ status[i] = "ok" => SegmentPath(segments[i].title) \in seg_dir

C3_Witness ==
    /\ dl_pc = "raised"
    /\ \E i, j \in Windows :
          /\ status[i] = "failed"
          /\ status[j] = "ok"
          /\ SegmentPath(segments[j].title) \in seg_dir

\* C4: at most max_concurrent segment downloads are in progress at a time.
C4_ConcurrencyLimit == Cardinality(Running) <= max_concurrent

C4_Witness ==
    /\ max_concurrent = 2
    /\ Cardinality(Running) = 2
    /\ Queued # {}

DeletedSegments == {path \in Range(segment_paths) : path \notin seg_dir}

\* C5: the combiner deletes segment files only after the tool exited with
\* status zero and non-empty output; a non-zero exit or an empty result
\* raises with no file deleted; when the combiner returns, every segment file
\* is deleted and the directory is removed exactly when it was left empty.
C5_CleanupOnlyOnSuccess ==
    /\ DeletedSegments # {} => ffmpeg_out = "ok"
    /\ ffmpeg_out \in {"nonzero", "empty"} =>
          /\ tr_pc = "raised"
          /\ DeletedSegments = {}
          /\ seg_dir_exists
    /\ tr_trace # <<>> =>
          /\ ffmpeg_out = "ok"
          /\ DeletedSegments = Range(segment_paths)
          /\ seg_dir_exists <=> (seg_dir # {})

C5_Witness ==
    /\ tr_trace = <<"combine">>
    /\ Len(segment_paths) >= 2
    /\ ~seg_dir_exists

\* C6: there are at most max_retries + 1 upload attempts; the wait after
\* failed attempt k (counted from 0) is 2^k seconds; once an attempt has
\* succeeded, or the retries are used up, no further upload is made.
C6_BoundedUploadRetry ==
    /\ uploads <= max_retries + 1
    /\ Len(sleeps) <= max_retries
    /\ \A k \in 1..Len(sleeps) : sleeps[k] = 2 ^ (k - 1)
    /\ pv_pc = "upload" => uploads = Len(sleeps)
    /\ pv_pc \in {"chat", "returned"} => uploads = Len(sleeps) + 1
    /\ (pv_pc = "returned" /\ ~file_handle) => uploads = max_retries + 1

C6_Witness ==
    /\ pv_pc = "returned"
    /\ ~file_handle
    /\ max_retries = 3
    /\ sleeps = <<1, 2, 4>>
    /\ uploads = 4

\* C7: the provider call never ends raised: when no upload attempt gave a
\* handle, or the chat failed, it returns None; transcribe() goes past the
\* provider call only with a non-empty reply and otherwise raises.
C7_NoneThenRaise ==
    /\ pv_pc \in {"idle", "upload", "chat", "returned"}
    /\ (pv_pc = "returned" /\ ~file_handle) => pv_result = NoResult
    /\ pv_result # NoResult => (pv_pc = "returned" /\ file_handle)
    /\ tr_pc \in {"parse", "clips", "extract", "write", "returned"} => ~Falsy(pv_result)
    /\ (pv_pc = "returned" /\ pv_result = NoResult) => tr_pc \in {"idle", "provider", "raised"}

C7_Witness ==
    /\ tr_pc = "raised"
    /\ pv_pc = "returned"
    /\ ~file_handle
    /\ max_retries >= 1
    /\ uploads = max_retries + 1

StageOrder == <<"combine", "transcribe", "parse", "clips", "write">>

\* Some stage of the job failed.
StageFailed ==
    \/ ffmpeg_out \in {"nonzero", "empty"}
    \/ pv_pc = "returned" /\ Falsy(pv_result)
    \/ clip_runs > Len(speaker_clips)

C9_NoPartialCommit ==
    /\ Transcripts \cap out_files # {} =>
          /\ tr_pc = "returned"
          /\ tr_trace = StageOrder
          /\ ~StageFailed
    /\ tr_pc = "raised" => Transcripts \cap out_files = {}

C9_Witness ==
    /\ tr_pc = "raised"
    /\ ProcessedAudio \in out_files
    /\ Len(speaker_clips) = 1
    /\ clip_runs = 2

\* The number of occurrences of sep in s.
RECURSIVE Occurrences(_, _)
Occurrences(s, sep) ==
    IF s = <<>> THEN 0
    ELSE (IF Head(s) = sep THEN 1 ELSE 0) + Occurrences(Tail(s), sep)

\* The lines of the reply that are not blank and hold at least two
\* delimiters, in reply order.
QualifyingLines(text, sep) ==
    SelectSeq(SplitLines(text),
              LAMBDA line : Strip(line) # <<>> /\ Occurrences(line, sep) >= 2)

\* The entries are those of the qualifying lines, in order, every delimiter
\* after the second kept in the text field.
OneEntryPerQualifyingLine ==
    LET sep == Delimiter(fmt_kind)
        q == QualifyingLines(fmt_text, sep)
    IN  /\ Len(fmt_out.entries) = Len(q)
        /\ \A k \in 1..Len(q) :
              /\ Occurrences(fmt_out.entries[k].transcription, sep)
                    = Occurrences(q[k], sep) - 2
              /\ Occurrences(fmt_out.entries[k].speaker, sep) = 0

\* C10: format_output never raises, and emits exactly one entry, in reply
\* order, for each non-blank line with at least two delimiters and none for
\* any other line, delimiters after the second staying in the text field.
C10_NeverRaisesOneEntryPerLine ==
    fmt_pc = "done" => (~fmt_out.raised /\ OneEntryPerQualifyingLine)

\* What the code does keep of C10: whenever format_output returns, the
\* entries are those of the qualifying lines.
C10_EntriesWhenReturned ==
    (fmt_pc = "done" /\ ~fmt_out.raised) => OneEntryPerQualifyingLine

\* The timestamp field of a three-field line is one float() rejects.
UnparsableTimestamp(line, sep) == FloatOf(Fields(line, sep)[1]).kind = "ValueError"

\* C11: a line with three fields whose timestamp cannot be parsed is dropped
\* like a line with the wrong field count: the output holds entries for the
\* qualifying lines with a parsable timestamp only.
C11_UnparsableTimestampDropped ==
    (fmt_pc = "done" /\ ~fmt_out.raised) =>
        LET sep == Delimiter(fmt_kind)
            kept == SelectSeq(QualifyingLines(fmt_text, sep),
                              LAMBDA line : ~UnparsableTimestamp(line, sep))
        IN  Len(fmt_out.entries) = Len(kept)

\* What the code does instead: such a line is emitted with the time 0.
C11_UnparsableTimestampIsZero ==
    (fmt_pc = "done" /\ ~fmt_out.raised) =>
        LET sep == Delimiter(fmt_kind)
            q == QualifyingLines(fmt_text, sep)
        IN  \A k \in 1..Len(q) :
                UnparsableTimestamp(q[k], sep) =>
                    /\ fmt_out.entries[k].time = convert_time(0, time_unit)
                    /\ fmt_out.entries[k].speaker = Fields(q[k], sep)[2]
                    /\ fmt_out.entries[k].transcription = Fields(q[k], sep)[3]

\* The delimiter a well-formed reply is written with.
ReplySep(text) == IF \E i \in 1..Len(text) : text[i] = ";" THEN ";" ELSE "|"

\* C12: on a well-formed reply (every line timestamp;speaker;text, no blank
\* line, no stray whitespace) the text formatter's format_output returns the
\* reply unchanged, the reply 00:00:00.000;Speaker 1;Hello /
\* 00:00:02.500;Speaker 2;Hi included.
C12_TextFormatterReturnsReply ==
    (fmt_pc = "done" /\ fmt_kind = "TextFormatter") =>
        (~fmt_out.raised /\ fmt_str = fmt_text)

\* What the code does instead: every timestamp is rewritten as the text of
\* a float, 0.0 for one float() rejects; speaker and text are kept.
C12_TimestampsRewritten ==
    (fmt_pc = "done" /\ fmt_kind = "TextFormatter") =>
        LET lines == SplitLines(fmt_text)
            out == SplitLines(fmt_str)
        IN  /\ ~fmt_out.raised
            /\ Len(out) = Len(lines)
            /\ \A k \in 1..Len(lines) :
                  LET f == Split(lines[k], ";", 2)
                      g == Split(out[k], ";", 2)
                      t == FloatOf(f[1])
                  IN  /\ g[2] = f[2]
                      /\ g[3] = f[3]
                      /\ g[1] = (IF t.kind = "number" THEN DigitTokens(t.val) ELSE <<"0">>)
                                   \o <<".", "0">>

\* One segment of the compact serialisation.
CompactSegment(line, sep, key, quoted) ==
    LET f == Split(line, sep, 2) IN
    <<"{">> \o Quoted(key) \o <<":">> \o (IF quoted THEN Quoted(f[1]) ELSE f[1])
    \o <<",">> \o Quoted(<<"speaker">>) \o <<":">> \o Quoted(f[2])
    \o <<",">> \o Quoted(<<"transcription">>) \o <<":">> \o Quoted(f[3]) \o <<"}">>

RECURSIVE CompactSegments(_, _, _, _)
CompactSegments(lines, sep, key, quoted) ==
    IF lines = <<>> THEN <<>>
    ELSE CompactSegment(Head(lines), sep, key, quoted)
         \o (IF Len(lines) = 1 THEN <<>> ELSE <<",">>)
         \o CompactSegments(Tail(lines), sep, key, quoted)

\* {"segments":[...]} without whitespace, one segment per line of the reply.
CompactJson(text, key, quoted) ==
    <<"{">> \o Quoted(<<"segments">>) \o <<":", "[">>
    \o CompactSegments(SplitLines(text), ReplySep(text), key, quoted) \o <<"]", "}">>

\* C13: JSON-serialising a reply yields the compact object
\* {"segments":[...]} with one segment per well-formed line, in order, each
\* with the line's timestamp, speaker and transcription (the timestamp keyed
\* timestamp or timestamp_<unit>, written as a string or as it stands).
C13_CompactJsonSegments ==
    (fmt_pc = "done" /\ fmt_kind = "JsonFormatter") =>
        /\ ~fmt_out.raised
        /\ \E key \in {<<"timestamp">>, <<"timestamp_", time_unit>>}, quoted \in BOOLEAN :
              fmt_str = CompactJson(fmt_text, key, quoted)

\* What the code does instead: the output is indented over several lines,
\* and a reply written with semicolons gives no segment at all.
C13_IndentedJson ==
    (fmt_pc = "done" /\ fmt_kind = "JsonFormatter") =>
        /\ ~fmt_out.raised
        /\ Len(SplitLines(fmt_str)) =
              (IF fmt_out.entries = <<>> THEN 3 ELSE 4 + 5 * Len(fmt_out.entries))
        /\ ReplySep(fmt_text) = ";" => fmt_out.entries = <<>>
        /\ ReplySep(fmt_text) = "|" => Len(fmt_out.entries) = Len(SplitLines(fmt_text))

\* C14: for a well-formed reply and either formatter, formatting the
\* formatter's own output again changes nothing.
C14_FormatIdempotent ==
    fmt_pc = "again" => (~fmt_again.raised /\ fmt_again.str = fmt_str)

\* What the code keeps of C14 on the replies of the model (whole or
\* unparsable timestamps): the text formatter is idempotent.
C14_TextIdempotent ==
    (fmt_pc = "again" /\ fmt_kind = "TextFormatter") =>
        (~fmt_again.raised /\ fmt_again.str = fmt_str)

\* C15: converting a millisecond count to the configured unit and parsing
\* the result gives the count back, for every count and unit; 1500 ms ->
\* 1.5 s -> 1500 ms.
C15_ConversionLossless ==
    conv_pc = "parsed" => conv_back = conv_ms

\* What the code keeps of C15: the round trip is exact for the unit ms and
\* for 1500 ms in s, and never off by more than one millisecond.
C15_LosesAtMostOne ==
    conv_pc = "parsed" =>
        /\ conv_back \in {conv_ms - 1, conv_ms}
        /\ time_unit = "ms" => conv_back = conv_ms
        /\ (time_unit = "s" /\ conv_ms = 1500) => conv_back = 1500

\* The segments of speaker sp, by position.
SegmentsOf(sp) == {i \in 1..Len(reply_segments) : reply_segments[i].speaker = sp}

\* The earliest of the longest segments of speaker sp.
EarliestLongest(sp) ==
    CHOOSE i \in SegmentsOf(sp) :
        \A j \in SegmentsOf(sp) :
            \/ DurationOf(reply_segments[j]) < DurationOf(reply_segments[i])
            \/ DurationOf(reply_segments[j]) = DurationOf(reply_segments[i]) /\ i <= j

\* C16: _find_best_segments gives, for each speaker of the list and no one
\* else, the timestamp of that speaker's segment of greatest parsed
\* duration, the earliest of them on a tie; for two segments of one speaker
\* with durations 00:00:04 and 00:00:10, in either order, it gives the
\* timestamp of the 00:00:10 one.
C16_LongestSegmentPerSpeaker ==
    (tr_pc = "extract" /\ clip_runs = 0) =>
        /\ {clip_todo[k][1] : k \in 1..Len(clip_todo)}
              = {reply_segments[i].speaker : i \in 1..Len(reply_segments)}
        /\ \A k, l \in 1..Len(clip_todo) : clip_todo[k][1] = clip_todo[l][1] => k = l
        /\ \A k \in 1..Len(clip_todo) :
              clip_todo[k][2] = reply_segments[EarliestLongest(clip_todo[k][1])].timestamp
        /\ \A i, j \in 1..Len(reply_segments) :
              ( /\ Len(reply_segments) = 2
                /\ reply_segments[1].speaker = reply_segments[2].speaker
                /\ "duration" \in DOMAIN reply_segments[i]
                /\ "duration" \in DOMAIN reply_segments[j]
                /\ reply_segments[i].duration = Dur4
                /\ reply_segments[j].duration = Dur10 )
              => clip_todo = << <<reply_segments[j].speaker, reply_segments[j].timestamp>> >>

C16_Witness ==
    /\ tr_pc = "extract"
    /\ clip_runs = 0
    /\ Len(reply_segments) = 3
    /\ \A i \in 1..3 : reply_segments[i].speaker = <<"A">>
    /\ "duration" \in DOMAIN reply_segments[1] /\ reply_segments[1].duration = Dur4
    /\ "duration" \in DOMAIN reply_segments[2] /\ reply_segments[2].duration = Dur10
    /\ "duration" \in DOMAIN reply_segments[3] /\ reply_segments[3].duration = Dur10
    /\ clip_todo = << <<(<<"A">>), (<<"2">>)>> >>

\* The keys of the returned clip map and the clip files it points to.
ClipKeys == {speaker_clips[k][1] : k \in 1..Len(speaker_clips)}

ClipFiles == {speaker_clips[k][2] : k \in 1..Len(speaker_clips)}

\* The normalised names of the speakers of the segment list.
NormalisedSpeakers == {ClipName(reply_segments[i].speaker) : i \in 1..Len(reply_segments)}

\* C17: when extract_speaker_clips has returned, the clip map is keyed by the
\* normalised speaker names of the segment list, one entry and one
\* extraction run per name, and no two entries point to the same clip file.
C17_OneClipPerNormalisedSpeaker ==
    (tr_pc = "write") =>
        /\ ClipKeys = NormalisedSpeakers
        /\ Len(speaker_clips) = Cardinality(NormalisedSpeakers)
        /\ clip_runs = Cardinality(NormalisedSpeakers)
        /\ \A k, l \in 1..Len(speaker_clips) :
              speaker_clips[k][2] = speaker_clips[l][2] => k = l

\* What the code does: the map is keyed by the speaker names as they stand
\* in the segments, one entry and one extraction run per such name, each
\* pointing to the file named after the normalised name, so that names
\* differing only in case or in space against underscore share a file.
C17_OneClipPerRawSpeaker ==
    (tr_pc = "write") =>
        /\ ClipKeys = {reply_segments[i].speaker : i \in 1..Len(reply_segments)}
        /\ Len(speaker_clips) = Cardinality(ClipKeys)
        /\ clip_runs = Len(speaker_clips)
        /\ \A k \in 1..Len(speaker_clips) :
              speaker_clips[k][2] = ClipPath(speaker_clips[k][1])
        /\ ClipFiles = {<<"speaker_clips", n>> : n \in NormalisedSpeakers}
        /\ ClipFiles \subseteq out_files

\* C18: the token count is between 0 and the burst at every point at which
\* the limiter can be observed.
C18_TokensWithinBounds == 0 <= tokens /\ tokens <= lim_burst * Token

\* What the code keeps: the count never exceeds the burst and stays above
\* minus one token.
C18_AboveMinusOne == -Token < tokens /\ tokens <= lim_burst * Token

\* C19: every acquire() that returns found at least one whole token right
\* before its debit, and debited exactly one token.
C19_WholeTokenBeforeDebit ==
    [][(returned' = returned + 1) =>
           (pre_debit' >= Token /\ tokens' = pre_debit' - Token)]_vars

\* What the code keeps: acquire() returns as soon as the count is positive,
\* however small, and debits exactly one token.
C19_PositiveBeforeDebit ==
    [][(returned' = returned + 1) =>
           (pre_debit' > 0 /\ tokens' = pre_debit' - Token)]_vars

\* C20: every acquire() that returned was debited from the count credited
\* with elapsed * rate for the time since the last update, capped at the
\* burst.
C20_CreditedOnEveryAttempt == (returned > 0) => (pre_debit = due)

\* What the code does: the credit is given only when the count is at or
\* below zero; otherwise the elapsed time is dropped.
C20_CreditedOnlyWhenEmpty ==
    (returned > 0) => (pre_debit = due \/ (0 < pre_debit /\ pre_debit < due))

\* The tasks inside "async with self.lock", suspended in the loop.
InSection == {t \in Tasks : acq_pc[t] = "sleeping"}

\* C21: at most one task is inside the refill/debit section, suspended or
\* not, and it holds the lock; no update of the count is lost: the count is
\* the burst plus every refill minus every debit, and the debits amount to
\* one token per returned acquire().
C21_SerializedNoLostUpdate ==
    /\ Cardinality(InSection) <= 1
    /\ \A t \in InSection : lock_owner = t
    /\ (InSection = {}) => (lock_owner = 0)
    /\ \A t \in Tasks : (acq_pc[t] = "waiting") <=> (\E i \in 1..Len(lock_waiters) : lock_waiters[i] = t)
    /\ tokens = lim_burst * Token + credited - debited
    /\ debited = returned * Token

C21_Witness ==
    /\ \E t, u \in Tasks : acq_pc[t] = "sleeping" /\ acq_pc[u] = "waiting" /\ lock_owner = t
    /\ returned >= 2
    /\ debited = 2 * Token

\* No two items of the list carry the same id.
DistinctIds(tweets) ==
    \A i, j \in 1..Len(tweets) : tweets[i].id = tweets[j].id => i = j

\* C22: whatever pages the service returns, the collected tweets never hold
\* an id twice, and a written archive holds exactly the collected tweets
\* with tweet_count equal to their number.
C22_NoDuplicateTweets ==
    /\ DistinctIds(x_tweets)
    /\ x_seen = {x_tweets[i].id : i \in 1..Len(x_tweets)}
    /\ x_archive.written =>
          /\ x_archive.tweets = x_tweets
          /\ DistinctIds(x_archive.tweets)
          /\ x_archive.tweet_count = Len(x_archive.tweets)

C22_Witness ==
    /\ x_pc = "returned"
    /\ x_archive.written
    /\ x_archive.tweet_count = 2
    /\ x_skipped
    /\ x_waits >= 1
    /\ x_fetches = 4

\* A step in which the page loop has run on a non-empty page.
PageProcessed ==
    /\ x_pc \in {"first_fetch", "pause"}
    /\ x_page' # <<>>
    /\ x_pc' \in {"returned", "next_acquire"}

\* Tweet t is dated before the floor.
OlderThanFloor(t) == x_since # 0 /\ t.day > 0 /\ t.day < x_since

\* C23 as stated: with a date floor and no tweet limit, the loop stops after
\* a page if every item of the page is both a duplicate and older than the
\* floor, and otherwise goes on to the next page.
C23_StopsWhenAllDuplicateAndOld ==
    [][(x_since # 0 /\ x_max_tweets = 0 /\ PageProcessed) =>
          IF \A i \in 1..Len(x_page') :
                 x_page'[i].id \in x_seen /\ OlderThanFloor(x_page'[i])
          THEN x_pc' = "returned"
          ELSE x_pc' = "next_acquire"]_vars

\* The items of the page the loop does not skip: neither a duplicate nor of
\* an unparsable date.
FreshItems(page, seen) == {i \in 1..Len(page) : page[i].id \notin seen /\ page[i].day # -1}

FirstFreshIsOld(page, seen) ==
    /\ FreshItems(page, seen) # {}
    /\ OlderThanFloor(page[CHOOSE i \in FreshItems(page, seen) :
                               \A j \in FreshItems(page, seen) : i <= j])

\* C23, amended: the loop stops for the date floor after a page exactly when
\* the tweet limit was not reached before it and the first item of the page
\* that is not skipped is older than the floor (so the page added nothing);
\* a page of duplicates alone does not stop it.  Without a tweet limit every
\* other non-empty page is followed by the request of the next one.
C23_StopsAtFirstFreshOld ==
    [][PageProcessed =>
          /\ (x_stop' = "date") <=>
                (~LimitReached(x_tweets) /\ FirstFreshIsOld(x_page', x_seen))
          /\ (x_stop' = "date") => (x_pc' = "returned" /\ x_tweets' = x_tweets)
          /\ (x_max_tweets = 0 /\ x_stop' # "date") => x_pc' = "next_acquire"]_vars

C23_Witness ==
    /\ x_pc = "returned"
    /\ x_stop = "date"
    /\ x_since # 0
    /\ x_max_tweets = 0
    /\ Len(x_page) = 2
    /\ x_page[1].id \in x_seen
    /\ x_page[2].id \notin x_seen
    /\ OlderThanFloor(x_page[2])
    /\ Len(x_tweets) = 1

\* A step in which a page fetch is answered by a rate-limit signal.
RateLimitSignal ==
    /\ x_pc \in {"first_fetch", "next_fetch"}
    /\ x_reply'.kind = "rate_limit"

\* C24: on a rate-limit signal below the cap the scraper sleeps for the
\* header value, or the default delay without a header, and then fetches
\* again; the retries of a job never exceed max_retries; at the cap the
\* signal propagates as TooManyRequests.
C24_RateLimitRetries ==
    [][/\ x_waits' <= x_max_retries
       /\ RateLimitSignal =>
             IF x_retry + 1 >= x_max_retries
             THEN x_pc' = "raised" /\ x_error' = "TooManyRequests" /\ x_waits' = x_waits
             ELSE /\ x_pc' \in {"outer_sleep", "inner_sleep"}
                  /\ x_waits' = x_waits + 1
                  /\ x_retry' = x_retry + 1
                  /\ x_wait' = IF x_reply'.header = NoHeader THEN RetryDelay ELSE 30
       /\ (x_pc \in {"outer_sleep", "inner_sleep", "pause"} /\ x_pc' = "raised") => FALSE
       /\ (x_error' = "TooManyRequests") => x_retry' >= x_max_retries]_vars

C24_Witness ==
    /\ x_pc = "raised"
    /\ x_error = "TooManyRequests"
    /\ x_max_retries = 3
    /\ x_waits = 2
    /\ x_wait = 30
    /\ x_tweets # <<>>

\* C25: at most one remote request is in flight, and every page fetch was
\* issued after an acquire() of its own had returned.
C25_SerializedFetches ==
    /\ x_in_flight \in {0, 1}
    /\ (x_in_flight = 1) <=> (x_pc \in {"user", "first_fetch", "next_fetch"})
    /\ x_fetches = x_acquired

C25_Witness ==
    /\ x_pc = "next_fetch"
    /\ x_in_flight = 1
    /\ x_fetches = 3
    /\ x_acquired = 3
    /\ x_waits = 1

\* C29: when the retry cap is exhausted get_user_tweets raises and there is
\* no archive file, whatever was collected; an archive file exists only
\* once the call has returned.
C29_NoArchiveOnExhaustion ==
    /\ (x_error = "TooManyRequests") => (x_pc = "raised" /\ x_archive = NoArchive)
    /\ x_archive.written <=> (x_pc = "returned")

C29_Witness ==
    /\ x_pc = "raised"
    /\ x_error = "TooManyRequests"
    /\ Len(x_tweets) = 2
    /\ x_archive = NoArchive

\* C30: an exception other than the rate-limit signal raised by the fetch of
\* the next page ends the pagination: nothing is retried or fetched again,
\* and the tweets collected so far are written and returned as a normal
\* result.
C30_NextPageErrorEndsTimeline ==
    [][(x_pc = "next_fetch" /\ x_reply'.kind = "error") =>
          /\ x_pc' = "returned"
          /\ x_error' = "none"
          /\ x_retry' = x_retry /\ x_waits' = x_waits /\ x_fetches' = x_fetches
          /\ x_tweets' = x_tweets
          /\ x_archive' = [written |-> TRUE, tweets |-> x_tweets,
                           tweet_count |-> Len(x_tweets)]]_vars

C30_Witness ==
    /\ x_pc = "returned"
    /\ x_stop = "error"
    /\ x_archive.written
    /\ x_archive.tweet_count = 2

\* C26: when the duration is missing or zero, the plan is the single window
\* from 0 with no end, labelled 'full', which is no numbered label; one
\* download is run and a returned fetch holds exactly its file.
C26_FullWindowWithoutDuration ==
    (duration = 0 /\ (segments # <<>> \/ dl_pc \notin {"info", "raised"})) =>
        /\ segments = <<[start_time |-> 0, end_time |-> -1, title |-> FullTitle]>>
        /\ \A n \in 1..(MaxDuration + 1) : TitleOf(n) # FullTitle
        /\ attempts[1] <= 1
        /\ seg_dir \subseteq {SegmentPath(FullTitle)}
        /\ dl_pc = "returned" =>
              /\ attempts = <<1>>
              /\ seg_dir = {SegmentPath(FullTitle)}
              /\ dl_result = <<SegmentPath(FullTitle)>>

C26_Witness ==
    /\ duration = 0
    /\ dl_pc = "returned"
    /\ dl_result = <<SegmentPath(FullTitle)>>

\* C27: a failed download cancels nothing: when download raises after the
\* windows were submitted, every window has been run, once, to its end, as
\* in a fetch that succeeds.
C27_FailureWaitsForAll ==
    /\ (dl_pc = "raised" /\ segments # <<>>) =>
          /\ \E i \in Windows : status[i] = "failed"
          /\ \A i \in Windows : status[i] \in {"ok", "failed"} /\ attempts[i] = 1
          /\ Len(completed) = Len(segments)
    /\ dl_pc = "returned" => \A i \in Windows : status[i] = "ok" /\ attempts[i] = 1

C27_Witness ==
    /\ dl_pc = "raised"
    /\ Len(segments) >= 3
    /\ taken = 1
    /\ status[completed[1]] = "failed"
    /\ \E i \in Windows : status[i] = "ok" /\ completed[Len(segments)] = i

\* The clip files written so far.
ClipsWritten == {speaker_clips[k][2] : k \in 1..Len(speaker_clips)}

C31_NeverMoreThanMaxTweets ==
    [][x_max_tweets > 0 =>
        /\ Len(x_tweets') <= x_max_tweets
        /\ Len(x_tweets') = x_max_tweets =>
              /\ x_pc' = "returned"
              /\ x_stop' = "limit"
              /\ x_in_flight' = 0
              /\ x_archive'.written
              /\ x_archive'.tweets = x_tweets'
        /\ Len(x_tweets) >= x_max_tweets =>
              /\ x_fetches' = x_fetches
              /\ x_acquired' = x_acquired
              /\ x_tweets' = x_tweets]_vars

C31_Witness ==
    /\ x_max_tweets = 1
    /\ x_stop = "limit"
    /\ x_fetches >= 2
    /\ Len(x_page) = 2
    /\ x_page[1].id # x_page[2].id
    /\ x_page[2].day = 0
    /\ x_tweets = <<x_page[1]>>
    /\ x_archive.tweet_count = 1

\* The tweet is dated, and dated before the floor.
DatedBeforeFloor(t) == t.day >= 1 /\ t.day < x_since

\* C32: with a date floor, no collected tweet and no tweet of the archive is
\* dated before the floor, in whatever order the pages bring the tweets:
\* each one is dated on or after the floor or has no creation date.
C32_NoTweetBeforeFloor ==
    x_since # 0 =>
        /\ \A i \in 1..Len(x_tweets) :
              /\ ~DatedBeforeFloor(x_tweets[i])
              /\ x_tweets[i].day = 0 \/ x_tweets[i].day >= x_since
        /\ x_archive.written =>
              \A i \in 1..Len(x_archive.tweets) :
                  x_archive.tweets[i].day = 0 \/ x_archive.tweets[i].day >= x_since

C32_Witness ==
    /\ x_since = 2
    /\ x_archive.written
    /\ Len(x_archive.tweets) = 2
    /\ x_archive.tweets[1].day = 0
    /\ x_archive.tweets[2].day = 2
    /\ Len(x_page) = 2
    /\ x_page[1].day = 2
    /\ x_page[2].day = 1
    /\ x_fetches >= 2

\* C33: with a positive rate and time advancing, every call to acquire()
\* that has to wait, for the lock or for a token, eventually returns, also
\* when other tasks keep calling acquire().
C33_AcquireReturns ==
    \A t \in Tasks : (acq_pc[t] \in {"waiting", "sleeping"}) ~> (acq_pc[t] = "idle")

C33_Witness ==
    /\ acquire_calls = MaxCalls
    /\ returned = MaxCalls - 2
    /\ tokens < 0
    /\ \E t, u \in Tasks :
          /\ lock_owner = t
          /\ acq_pc[t] = "sleeping"
          /\ lock_waiters = <<u>>

====
